---- MODULE Spec2Model ----
(***************************************************************************)
(* Model of the AccountsReports component of kyaari-oms                    *)
(* (src/dashboards/accounts/pages/Reports.tsx): three report tables        *)
(* (payment aging, compliance, SLA breaches) with their filters and        *)
(* pagination, the summary metrics, the five fetch effects, the time-range *)
(* selector and the print export.                                          *)
(*                                                                         *)
(* React's cycle is modelled as it runs: an event handler (or a promise    *)
(* callback) updates the state and the component re-renders in the same    *)
(* step; the passive effects whose dependencies changed in that render are *)
(* flushed in the next step, before any other event is handled.            *)
(*                                                                         *)
(* Text is a sequence of one-character strings.  Numbers are integers.     *)
(* An optional value is a sequence of length 0 (absent) or 1 (present).    *)
(***************************************************************************)
EXTENDS Integers, Sequences, FiniteSets, TLC

VARIABLES
  timeRange, loading,
  agingVendorFilter, agingStatusFilter, agingData,
  complianceVendorFilter, complianceFilter, complianceData, overallCompliance,
  slaTypeFilter, slaBreachSeverity, slaDelaySeverity, slaBreachData,
  totalSlaBreaches, avgDelayAcrossAll,
  agingCurrentPage, complianceCurrentPage, slaCurrentPage,
  paymentsReleased, pendingPayments, paymentChartData,
  inflight, settled, rangeChanges, unmounted,
  effectDeps, view, last, focus,
  surfaces, download

filterVars == <<agingVendorFilter, agingStatusFilter,
                complianceVendorFilter, complianceFilter,
                slaTypeFilter, slaBreachSeverity, slaDelaySeverity>>
pageVars == <<agingCurrentPage, complianceCurrentPage, slaCurrentPage>>
dataVars == <<agingData, complianceData, overallCompliance, slaBreachData,
              totalSlaBreaches, avgDelayAcrossAll>>
periodVars == <<paymentsReleased, pendingPayments, paymentChartData>>
fetchVars == <<inflight, settled, rangeChanges, unmounted, loading, timeRange>>
printVars == <<surfaces, download>>
vars == <<filterVars, pageVars, dataVars, periodVars, fetchVars, printVars,
          effectDeps, view, last, focus>>

(***************************************************************************)
(* Bounds of the model.                                                    *)
(***************************************************************************)
\* longest generated dataset (23 rows: two full pages and a partial one)
MaxRows == 23
\* longest dataset enumerated over the whole row domain
MaxShort == 2
\* rows of the dataset the data source returns under Spec
SpecRows == 12
\* time-range changes in one run of Spec
MaxRangeChanges == 1
\* print exports in one run of PrintSpec
MaxExports == 2
MaxCsvRows == 2
MaxPage == 4

\* Reports.tsx:184
itemsPerPage == 10

Min(a, b) == IF a <= b THEN a ELSE b
Max(a, b) == IF a >= b THEN a ELSE b

(***************************************************************************)
(* JavaScript helpers.                                                     *)
(***************************************************************************)
\* the result of arithmetic on an unparseable date; no comparison with it holds
NaN == 0 - 1

toLowerCaseChar(c) ==
  CASE c = "A" -> "a"
    [] c = "B" -> "b"
    [] OTHER -> c

\* String.prototype.toLowerCase
toLowerCase(s) == [i \in 1..Len(s) |-> toLowerCaseChar(s[i])]

\* String.prototype.includes
includes(s, t) ==
  \E i \in 0..(Len(s) - Len(t)) : SubSeq(s, i + 1, i + Len(t)) = t

\* Array.prototype.slice(start, end) for 0 <= start
slice(seq, start, end) == SubSeq(seq, start + 1, Min(end, Len(seq)))

\* x || 0 on an optional number: absent and 0 are both falsy
OrZero(opt) == IF opt = <<>> THEN 0 ELSE opt[1]

\* x || [] on an optional array
OrEmpty(opt) == IF opt = <<>> THEN <<>> ELSE opt[1]

(***************************************************************************)
(* Row normalisation (Reports.tsx:41-46, 193-203, 219-224, 241-245).       *)
(* A raw date is [kind, t]: kind "null" (absent), "empty" (''), "invalid"  *)
(* (unparseable) or "valid" with t its time in hours.                      *)
(***************************************************************************)
NowHours == 24 * 100

computeDaysOld(isoDate) ==
  IF isoDate.kind \in {"null", "empty"} THEN 0
  ELSE IF isoDate.kind = "invalid" THEN NaN
  ELSE Max(0, (NowHours - isoDate.t) \div 24)

NormalizeAging(r) ==
  [vendor |-> r.vendorName,
   outstandingAmount |-> r.outstandingAmount,
   avgDaysPending |-> r.avgPendingDays,
   oldestInvoiceDate |->
     IF r.oldestInvoiceDate.kind = "null" THEN [kind |-> "empty", t |-> 0]
     ELSE r.oldestInvoiceDate,
   oldestInvoiceDays |-> computeDaysOld(r.oldestInvoiceDate)]

NormalizeCompliance(v) ==
  [vendor |-> v.vendor,
   totalInvoices |-> v.totalInvoices,
   compliantPercentage |-> v.compliantPercentage,
   issuesFound |-> v.issuesFound]

NormalizeSla(item) ==
  [slaType |-> item.slaType,
   breachCount |-> item.breachCount,
   avgDelayDays |-> item.avgDelayDays]

(***************************************************************************)
(* Filter Engine (Reports.tsx:285-359).                                    *)
(***************************************************************************)
VendorMatches(text, item) ==
  includes(toLowerCase(item.vendor), toLowerCase(text))

\* a variant of AgingStatusMatches whose overdue bucket starts at 30
AgingStatusMatchesFrom30(status, item) ==
  IF status = "overdue" THEN item.avgDaysPending >= 30
  ELSE IF status = "warning"
       THEN item.avgDaysPending > 15 /\ item.avgDaysPending <= 30
  ELSE IF status = "good" THEN item.avgDaysPending <= 15
  ELSE TRUE

AgingStatusMatches(status, item) ==
  IF status = "overdue" THEN item.avgDaysPending > 30
  ELSE IF status = "warning"
       THEN item.avgDaysPending > 15 /\ item.avgDaysPending <= 30
  ELSE IF status = "good" THEN item.avgDaysPending <= 15
  ELSE TRUE

\* a variant of filteredPaymentAging whose status filter restarts from the
\* full data
filteredPaymentAgingRestart(data, vendorFilter, statusFilter) ==
  LET f1 == IF vendorFilter # <<>>
            THEN SelectSeq(data, LAMBDA item : VendorMatches(vendorFilter, item)) ELSE data
  IN  IF statusFilter # "all"
      THEN SelectSeq(data, LAMBDA item : AgingStatusMatches(statusFilter, item)) ELSE f1

filteredPaymentAging(data, vendorFilter, statusFilter) ==
  LET f1 == IF vendorFilter # <<>>
            THEN SelectSeq(data, LAMBDA item : VendorMatches(vendorFilter, item)) ELSE data
  IN  IF statusFilter # "all"
      THEN SelectSeq(f1, LAMBDA item : AgingStatusMatches(statusFilter, item)) ELSE f1

ComplianceLevelMatches(level, item) ==
  IF level = "high" THEN item.compliantPercentage >= 95
  ELSE IF level = "medium"
       THEN item.compliantPercentage >= 85 /\ item.compliantPercentage < 95
  ELSE IF level = "low" THEN item.compliantPercentage < 85
  ELSE TRUE

filteredCompliance(data, vendorFilter, levelFilter) ==
  LET f1 == IF vendorFilter # <<>>
            THEN SelectSeq(data, LAMBDA item : VendorMatches(vendorFilter, item)) ELSE data
  IN  IF levelFilter # "all"
      THEN SelectSeq(f1, LAMBDA item : ComplianceLevelMatches(levelFilter, item)) ELSE f1

SlaTypeMatches(type, item) == item.slaType = type

BreachSeverityMatches(severity, item) ==
  IF severity = "high" THEN item.breachCount >= 12
  ELSE IF severity = "medium"
       THEN item.breachCount >= 8 /\ item.breachCount < 12
  ELSE IF severity = "low" THEN item.breachCount < 8
  ELSE TRUE

DelaySeverityMatches(severity, item) ==
  IF severity = "critical" THEN item.avgDelayDays > 5
  ELSE IF severity = "moderate"
       THEN item.avgDelayDays > 3 /\ item.avgDelayDays <= 5
  ELSE IF severity = "minor" THEN item.avgDelayDays <= 3
  ELSE TRUE

\* a variant of filteredSLABreaches that compares the type with 'all' too
filteredSLABreachesNoNeutral(data, typeFilter, breachSeverity, delaySeverity) ==
  LET f1 == SelectSeq(data, LAMBDA item : SlaTypeMatches(typeFilter, item))
      f2 == IF breachSeverity # "all"
            THEN SelectSeq(f1, LAMBDA item : BreachSeverityMatches(breachSeverity, item)) ELSE f1
  IN  IF delaySeverity # "all"
      THEN SelectSeq(f2, LAMBDA item : DelaySeverityMatches(delaySeverity, item)) ELSE f2

filteredSLABreaches(data, typeFilter, breachSeverity, delaySeverity) ==
  LET f1 == IF typeFilter # "all"
            THEN SelectSeq(data, LAMBDA item : SlaTypeMatches(typeFilter, item)) ELSE data
      f2 == IF breachSeverity # "all"
            THEN SelectSeq(f1, LAMBDA item : BreachSeverityMatches(breachSeverity, item)) ELSE f1
  IN  IF delaySeverity # "all"
      THEN SelectSeq(f2, LAMBDA item : DelaySeverityMatches(delaySeverity, item)) ELSE f2

(***************************************************************************)
(* Pagination calculations (Reports.tsx:361-377).                          *)
(***************************************************************************)
\* a variant of TotalPages that rounds down
TotalPagesFloor(length) == length \div itemsPerPage

\* Math.ceil(length / itemsPerPage)
TotalPages(length) == (length + itemsPerPage - 1) \div itemsPerPage

StartIndex(currentPage) == (currentPage - 1) * itemsPerPage

\* a variant of EndIndex that is not limited to the length
EndIndexUnlimited(currentPage, length) ==
  StartIndex(currentPage) + itemsPerPage

EndIndex(currentPage, length) ==
  Min(StartIndex(currentPage) + itemsPerPage, length)

Paginate(filtered, currentPage) ==
  [filtered |-> filtered,
   totalPages |-> TotalPages(Len(filtered)),
   startIndex |-> StartIndex(currentPage),
   endIndex |-> EndIndex(currentPage, Len(filtered)),
   paginated |-> slice(filtered, StartIndex(currentPage),
                       EndIndex(currentPage, Len(filtered)))]

(***************************************************************************)
(* Summary metrics (Reports.tsx:272-283).                                  *)
(***************************************************************************)
RECURSIVE reduceOutstanding(_, _)
reduceOutstanding(data, sum) ==
  IF data = <<>> THEN sum
  ELSE reduceOutstanding(Tail(data), sum + Head(data).outstandingAmount)

SummaryOf(data, compliance, breaches, released, pending) ==
  [totalOutstanding |-> reduceOutstanding(data, 0),
   avgCompliance |-> compliance,
   totalBreaches |-> breaches,
   paymentsReleased |-> released,
   pendingPayments |-> pending]

(***************************************************************************)
(* The delimited-text export (Reports.tsx:67-87).  A row object is the     *)
(* sequence of its <<key, value>> pairs in insertion order; a key is a     *)
(* text; a value is [t |-> "undefined"], [t |-> "string", s |-> text] or   *)
(* [t |-> "number", n |-> integer].                                        *)
(***************************************************************************)
Undefined == [t |-> "undefined"]
Str(text) == [t |-> "string", s |-> text]
Num(n) == [t |-> "number", n |-> n]

Digit(d) == <<"0", "1", "2", "3", "4", "5", "6", "7", "8", "9">>[d + 1]

RECURSIVE NumberToString(_)
\* String(n) for the numbers of the model: a natural number or NaN
NumberToString(n) ==
  IF n = NaN THEN <<"N", "a", "N">>
  ELSE IF n < 10 THEN <<Digit(n)>>
  ELSE NumberToString(n \div 10) \o <<Digit(n % 10)>>

\* val === undefined || val === null ? '' : String(val)
StringOf(val) ==
  CASE val.t = "undefined" -> <<>>
    [] val.t = "string" -> val.s
    [] val.t = "number" -> NumberToString(val.n)

RECURSIVE replaceQuotes(_)
\* s.replace(/"/g, '""')
replaceQuotes(s) ==
  IF s = <<>> THEN <<>>
  ELSE (IF Head(s) = "\"" THEN <<"\"", "\"">> ELSE <<Head(s)>>)
         \o replaceQuotes(Tail(s))

\* a variant of escapeCSV that wraps in quotes without doubling the quotes
escapeCSVNoDoubling(val) ==
  LET s == StringOf(val)
  IN  IF \E i \in 1..Len(s) : s[i] \in {",", "\"", "\n"}
      THEN <<"\"">> \o s \o <<"\"">>
      ELSE s

escapeCSV(val) ==
  LET s == StringOf(val)
  IN  IF \E i \in 1..Len(s) : s[i] \in {",", "\"", "\n"}
      THEN <<"\"">> \o replaceQuotes(s) \o <<"\"">>
      ELSE s

RECURSIVE join(_, _)
\* Array.prototype.join
join(texts, sep) ==
  IF texts = <<>> THEN <<>>
  ELSE IF Len(texts) = 1 THEN texts[1]
  ELSE texts[1] \o sep \o join(Tail(texts), sep)

\* row[h]
Get(row, h) ==
  IF \E i \in 1..Len(row) : row[i][1] = h
  THEN row[CHOOSE i \in 1..Len(row) : row[i][1] = h][2]
  ELSE Undefined

RECURSIVE flatMapKeys(_)
\* rows.flatMap((r) => Object.keys(r))
flatMapKeys(rows) ==
  IF rows = <<>> THEN <<>>
  ELSE [i \in 1..Len(Head(rows)) |-> Head(rows)[i][1]]
         \o flatMapKeys(Tail(rows))

RECURSIVE fromSet(_, _)
\* Array.from(new Set(keys)): the first occurrence of each key, in order
fromSet(keys, seen) ==
  IF keys = <<>> THEN <<>>
  ELSE IF Head(keys) \in seen THEN fromSet(Tail(keys), seen)
  ELSE <<Head(keys)>> \o fromSet(Tail(keys), seen \cup {Head(keys)})

\* a variant of toCSV that returns the header line for an empty row set
toCSVHeaderAlways(rows, headerOrder) ==
  LET headers == IF Len(headerOrder) > 0 THEN headerOrder
                 ELSE fromSet(flatMapKeys(rows), {})
      line(row) ==
        join([j \in 1..Len(headers) |-> escapeCSV(Get(row, headers[j]))],
             <<",">>)
  IN  join(<<join(headers, <<",">>)>>
             \o [i \in 1..Len(rows) |-> line(rows[i])], <<"\n">>)

\* a variant of toCSV that always takes the union of the keys as columns
toCSVIgnoringOrder(rows, headerOrder) ==
  IF Len(rows) = 0 THEN <<>>
  ELSE
    LET headers == fromSet(flatMapKeys(rows), {})
        line(row) ==
          join([j \in 1..Len(headers) |-> escapeCSV(Get(row, headers[j]))],
               <<",">>)
    IN  join(<<join(headers, <<",">>)>>
               \o [i \in 1..Len(rows) |-> line(rows[i])], <<"\n">>)

\* toCSV(rows, headerOrder); an omitted headerOrder is the empty sequence
toCSV(rows, headerOrder) ==
  IF Len(rows) = 0 THEN <<>>
  ELSE
    LET headers == IF Len(headerOrder) > 0 THEN headerOrder
                   ELSE fromSet(flatMapKeys(rows), {})
        line(row) ==
          join([j \in 1..Len(headers) |-> escapeCSV(Get(row, headers[j]))],
               <<",">>)
    IN  join(<<join(headers, <<",">>)>>
               \o [i \in 1..Len(rows) |-> line(rows[i])], <<"\n">>)

(***************************************************************************)
(* What the data source returns, and what the user can enter.              *)
(***************************************************************************)
VendorCycle == << <<"A", "b">>, <<"b", "a">>, <<"a">> >>
DateCycle == << [kind |-> "null", t |-> 0],
               [kind |-> "valid", t |-> NowHours - 47],
               [kind |-> "valid", t |-> NowHours - 24 * 45],
               [kind |-> "valid", t |-> NowHours + 5] >>
SlaTypes == <<"Invoice Validation", "Payment Release",
              "Delivery Confirmation", "Vendor Response Time">>

\* the i-th record of a generated aging batch: avgPendingDays runs through
\* 12, 13, ... and crosses both bucket boundaries (15|16 and 30|31)
RawAgingRow(i) ==
  [vendorName |-> VendorCycle[(i % 3) + 1],
   outstandingAmount |-> 100 + i,
   avgPendingDays |-> 11 + i,
   oldestInvoiceDate |-> DateCycle[(i % 4) + 1]]

RawComplianceRow(i) ==
  [vendor |-> VendorCycle[(i % 3) + 1],
   totalInvoices |-> 10 + i,
   compliantPercentage |-> 76 + i,
   issuesFound |-> i % 4]

RawSlaRow(i) ==
  [slaType |-> SlaTypes[(i % 4) + 1],
   breachCount |-> i,
   avgDelayDays |-> i % 8]

RawAging(n) == [i \in 1..n |-> RawAgingRow(i)]
RawCompliance(n) == [i \in 1..n |-> RawComplianceRow(i)]
RawSla(n) == [i \in 1..n |-> RawSlaRow(i)]

\* the row domains of the enumerated short batches: every value next to a
\* bucket boundary
ShortAgingRows ==
  [vendorName : {<<"A", "b">>, <<"B">>},
   outstandingAmount : {50},
   avgPendingDays : {15, 16, 30, 31},
   oldestInvoiceDate : {[kind |-> "null", t |-> 0]}]

ShortComplianceRows ==
  [vendor : {<<"A", "b">>, <<"B">>},
   totalInvoices : {20},
   compliantPercentage : {84, 85, 94, 95},
   issuesFound : {1}]

ShortSlaRows ==
  [slaType : {"Invoice Validation", "Payment Release"},
   breachCount : {7, 12},
   avgDelayDays : {3, 6}]

SeqsUpTo(S, n) == UNION {[1..k -> S] : k \in 0..n}

AgingBatches ==
  SeqsUpTo(ShortAgingRows, MaxShort) \cup {RawAging(n) : n \in 0..MaxRows}
ComplianceBatches ==
  SeqsUpTo(ShortComplianceRows, MaxShort)
    \cup {RawCompliance(n) : n \in 0..MaxRows}
SlaBatches ==
  SeqsUpTo(ShortSlaRows, MaxShort) \cup {RawSla(n) : n \in 0..MaxRows}

\* texts typed into a vendor search box ('' is the neutral value)
VendorInputs == {<<>>, <<"a">>, <<"B">>, <<"a", "B">>}
\* the options of the dropdowns (Reports.tsx:485-490, 744-749, 1036-1042,
\* 1053-1058, 1069-1074)
AgingStatusOptions == {"all", "overdue", "warning", "good"}
ComplianceOptions == {"all", "high", "medium", "low"}
SlaTypeOptions == {"all"} \cup {SlaTypes[i] : i \in 1..4}
BreachSeverityOptions == {"all", "high", "medium", "low"}
DelaySeverityOptions == {"all", "critical", "moderate", "minor"}
TimeRanges == {"weekly", "monthly", "yearly"}

\* the pages the pagination control asks for: it offers the pages 1..totalPages
PageRequests(totalPages) == 1..totalPages

(***************************************************************************)
(* One render of the component: the memoised filtered sequences, the       *)
(* pagination calculations and the summary metrics (Reports.tsx:272-377).  *)
(***************************************************************************)
\* a variant of Render whose summary metrics are computed from the filtered
\* aging rows
RenderSummaryOfFiltered(aD, aV, aS, aP, cD, cV, cF, cP, sD, sT, sB, sL, sP, oC, tB, pR, pP) ==
  [aging |-> Paginate(filteredPaymentAging(aD, aV, aS), aP),
   compliance |-> Paginate(filteredCompliance(cD, cV, cF), cP),
   sla |-> Paginate(filteredSLABreaches(sD, sT, sB, sL), sP),
   summaryMetrics |->
     SummaryOf(filteredPaymentAging(aD, aV, aS), oC, tB, pR, pP)]

Render(aD, aV, aS, aP, cD, cV, cF, cP, sD, sT, sB, sL, sP, oC, tB, pR, pP) ==
  [aging |-> Paginate(filteredPaymentAging(aD, aV, aS), aP),
   compliance |-> Paginate(filteredCompliance(cD, cV, cF), cP),
   sla |-> Paginate(filteredSLABreaches(sD, sT, sB, sL), sP),
   summaryMetrics |-> SummaryOf(aD, oC, tB, pR, pP)]

Rerender ==
  view' = Render(agingData', agingVendorFilter', agingStatusFilter',
                 agingCurrentPage',
                 complianceData', complianceVendorFilter', complianceFilter',
                 complianceCurrentPage',
                 slaBreachData', slaTypeFilter', slaBreachSeverity',
                 slaDelaySeverity', slaCurrentPage',
                 overallCompliance', totalSlaBreaches',
                 paymentsReleased', pendingPayments')

(***************************************************************************)
(* The dependency arrays of the effects (Reports.tsx:270, 382, 386, 390,   *)
(* 407).  effectDeps holds the values the effects last ran with.           *)
(***************************************************************************)
\* a variant of CurrentDeps in which the page-reset effects also depend on
\* the current pages
CurrentDepsWithPages ==
  [aging |-> <<agingVendorFilter, agingStatusFilter, agingCurrentPage>>,
   compliance |-> <<complianceVendorFilter, complianceFilter,
                    complianceCurrentPage>>,
   sla |-> <<slaTypeFilter, slaBreachSeverity, slaDelaySeverity,
             slaCurrentPage>>,
   timeRange |-> timeRange]

CurrentDeps ==
  [aging |-> <<agingVendorFilter, agingStatusFilter>>,
   compliance |-> <<complianceVendorFilter, complianceFilter>>,
   sla |-> <<slaTypeFilter, slaBreachSeverity, slaDelaySeverity>>,
   timeRange |-> timeRange]

EffectsPending == effectDeps # CurrentDeps

\* an event can be handled: the view is mounted and no effect is pending
Ready == ~unmounted /\ ~EffectsPending

Event(op) == [op |-> op]

\* a user event on a group of controls is handled; focus names the group
\* (a table, the time-range buttons, the export buttons) a run exercises
UserTurn(group) ==
  /\ Ready
  /\ focus = group
  /\ UNCHANGED focus

(***************************************************************************)
(* What a fulfilled response commits (Reports.tsx:193-204, 219-226,        *)
(* 241-248, 265-266, 401).                                                 *)
(***************************************************************************)
AgingItems(resp) ==
  LET raw == OrEmpty(resp.data)
  IN  [i \in 1..Len(raw) |-> NormalizeAging(raw[i])]

ComplianceRows(resp) ==
  LET raw == IF resp.data = <<>> THEN <<>> ELSE OrEmpty(resp.data[1].vendors)
  IN  [i \in 1..Len(raw) |-> NormalizeCompliance(raw[i])]

\* a variant of ComplianceRate without the || 0 default
ComplianceRateNoDefault(resp) ==
  IF resp.data = <<>> \/ resp.data[1].overallComplianceRate = <<>> THEN NaN
  ELSE resp.data[1].overallComplianceRate[1]

ComplianceRate(resp) ==
  IF resp.data = <<>> THEN 0 ELSE OrZero(resp.data[1].overallComplianceRate)

SlaItems(resp) ==
  LET raw == IF resp.data = <<>> THEN <<>> ELSE OrEmpty(resp.data[1].items)
  IN  [i \in 1..Len(raw) |-> NormalizeSla(raw[i])]

SlaTotal(resp) ==
  IF resp.data = <<>> THEN 0 ELSE OrZero(resp.data[1].totalBreaches)

SlaAvgDelay(resp) ==
  IF resp.data = <<>> THEN 0 ELSE OrZero(resp.data[1].avgDelayAcrossAll)

SummaryReleased(resp) ==
  IF resp.data = <<>> THEN 0 ELSE OrZero(resp.data[1].released)

SummaryPending(resp) ==
  IF resp.data = <<>> THEN 0 ELSE OrZero(resp.data[1].pending)

TrendsData(resp) == OrEmpty(resp.data)

AgingResponse(batch) == [data |-> <<batch>>]
ComplianceResponse(batch, rate) ==
  [data |-> <<[vendors |-> <<batch>>, overallComplianceRate |-> rate]>>]
SlaResponse(batch, total, delay) ==
  [data |-> <<[items |-> <<batch>>, totalBreaches |-> total,
               avgDelayAcrossAll |-> delay]>>]
NoData == [data |-> <<>>]

(***************************************************************************)
(* The state after construction: useState's initial values                 *)
(* (Reports.tsx:157-184, 257-258, 392) and the mount effects run: five     *)
(* fetches in flight, the loading flag set.                                *)
(***************************************************************************)
Request(kind, gen, range) ==
  [kind |-> kind, gen |-> gen, range |-> range, mounted |-> TRUE]

Kinds == {"aging", "compliance", "sla", "summary", "trends"}

\* an export's rendering surface (the iframe of Reports.tsx:142-155) and the
\* callbacks registered for it; doc is the document written into it, if any
NoSurface ==
  [phase |-> "none", table |-> "none", attached |-> FALSE,
   listener |-> FALSE, removals |-> 0, threw |-> FALSE, releasedBy |-> "none",
   doc |-> <<>>]

\* a call of toCSV and the file handed to downloadFile (Reports.tsx:55-65);
\* content is absent until toCSV has returned
NoDownload ==
  [name |-> "none", rows |-> <<>>, headerOrder |-> <<>>, content |-> <<>>]

Defaults ==
  /\ timeRange = "weekly"
  /\ agingVendorFilter = <<>> /\ agingStatusFilter = "all"
  /\ complianceVendorFilter = <<>> /\ complianceFilter = "all"
  /\ slaTypeFilter = "all" /\ slaBreachSeverity = "all"
  /\ slaDelaySeverity = "all"
  /\ agingCurrentPage = 1 /\ complianceCurrentPage = 1 /\ slaCurrentPage = 1
  /\ rangeChanges = 0
  /\ unmounted = FALSE
  /\ surfaces = [e \in 1..MaxExports |-> NoSurface]

Init ==
  /\ Defaults
  /\ loading = TRUE
  /\ agingData = <<>>
  /\ complianceData = <<>> /\ overallCompliance = 0
  /\ slaBreachData = <<>> /\ totalSlaBreaches = 0 /\ avgDelayAcrossAll = 0
  /\ paymentsReleased = 0 /\ pendingPayments = 0 /\ paymentChartData = <<>>
  /\ inflight = {Request("aging", 0, "none"), Request("compliance", 0, "none"),
                 Request("sla", 0, "none"), Request("summary", 0, "weekly"),
                 Request("trends", 0, "weekly")}
  /\ settled = [k \in Kinds |-> "pending"]
  /\ effectDeps = CurrentDeps
  /\ view = Render(<<>>, <<>>, "all", 1, <<>>, <<>>, "all", 1,
                   <<>>, "all", "all", "all", 1, 0, 0, 0, 0)
  /\ last = Event("mount")
  /\ focus \in {"aging", "compliance", "sla", "period", "view"}
  /\ download = NoDownload

(***************************************************************************)
(* The state once the five fetches have been fulfilled with the given      *)
(* responses and no filter has been touched.                               *)
(***************************************************************************)
LoadedView(aResp, cResp, sResp) ==
  /\ Defaults
  /\ loading = FALSE
  /\ agingData = AgingItems(aResp)
  /\ complianceData = ComplianceRows(cResp)
  /\ overallCompliance = ComplianceRate(cResp)
  /\ slaBreachData = SlaItems(sResp)
  /\ totalSlaBreaches = SlaTotal(sResp)
  /\ avgDelayAcrossAll = SlaAvgDelay(sResp)
  /\ paymentsReleased = 700 /\ pendingPayments = 300
  /\ paymentChartData = <<[period |-> "weekly", released |-> 700,
                           pending |-> 300]>>
  /\ inflight = {}
  /\ settled = [k \in Kinds |-> "fulfilled"]
  /\ effectDeps = CurrentDeps
  /\ view = Render(agingData, <<>>, "all", 1, complianceData, <<>>, "all", 1,
                   slaBreachData, "all", "all", "all", 1,
                   overallCompliance, totalSlaBreaches, 700, 300)
  /\ last = Event("loaded")

Loaded(aResp, cResp, sResp) ==
  /\ LoadedView(aResp, cResp, sResp)
  /\ download = NoDownload

TableInit ==
  \/ /\ focus = "aging"
     /\ \E b \in AgingBatches : Loaded(AgingResponse(b), NoData, NoData)
  \/ /\ focus = "compliance"
     /\ \E b \in ComplianceBatches :
          Loaded(NoData, ComplianceResponse(b, <<92>>), NoData)
  \/ /\ focus = "sla"
     /\ \E b \in SlaBatches :
          Loaded(NoData, NoData, SlaResponse(b, <<40>>, <<4>>))

(***************************************************************************)
(* Table events: the filter controls, Reset, Clear All, the filter chips   *)
(* and the pagination control.  Each sets its state and re-renders.        *)
(***************************************************************************)
agingFilters == <<agingVendorFilter, agingStatusFilter>>
complianceFilters == <<complianceVendorFilter, complianceFilter>>
slaFilters == <<slaTypeFilter, slaBreachSeverity, slaDelaySeverity>>
untouched == <<dataVars, periodVars, fetchVars, printVars, effectDeps>>

\* the vendor search box and the vendor chip (Reports.tsx:474, 514)
SetAgingVendorFilter(v) ==
  /\ UserTurn("aging")
  /\ v # agingVendorFilter
  /\ agingVendorFilter' = v
  /\ UNCHANGED <<agingStatusFilter, complianceFilters, slaFilters, pageVars>>
  /\ UNCHANGED untouched
  /\ last' = Event("setAgingVendorFilter")
  /\ Rerender

\* the status dropdown and the status chip (Reports.tsx:484, 524)
SetAgingStatusFilter(s) ==
  /\ UserTurn("aging")
  /\ s # agingStatusFilter
  /\ agingStatusFilter' = s
  /\ UNCHANGED <<agingVendorFilter, complianceFilters, slaFilters, pageVars>>
  /\ UNCHANGED untouched
  /\ last' = Event("setAgingStatusFilter")
  /\ Rerender

\* Reset (Reports.tsx:496-505)
AgingReset ==
  /\ UserTurn("aging")
  /\ agingVendorFilter' = <<>>
  /\ agingStatusFilter' = "all"
  /\ agingCurrentPage' = 1
  /\ UNCHANGED <<complianceFilters, slaFilters, complianceCurrentPage,
                 slaCurrentPage>>
  /\ UNCHANGED untouched
  /\ last' = Event("agingReset")
  /\ Rerender

\* Clear All, shown while a filter is active (Reports.tsx:508, 532-540)
AgingClearAll ==
  /\ UserTurn("aging")
  /\ agingVendorFilter # <<>> \/ agingStatusFilter # "all"
  /\ agingVendorFilter' = <<>>
  /\ agingStatusFilter' = "all"
  /\ UNCHANGED <<complianceFilters, slaFilters, pageVars>>
  /\ UNCHANGED untouched
  /\ last' = Event("agingClearAll")
  /\ Rerender

\* the pagination control, shown while the filtered sequence is not empty
\* (Reports.tsx:602-613)
SetAgingCurrentPage(p) ==
  /\ UserTurn("aging")
  /\ Len(view.aging.filtered) > 0
  /\ p # agingCurrentPage
  /\ agingCurrentPage' = p
  /\ UNCHANGED <<filterVars, complianceCurrentPage, slaCurrentPage>>
  /\ UNCHANGED untouched
  /\ last' = [op |-> "setAgingCurrentPage", page |-> p]
  /\ Rerender

SetComplianceVendorFilter(v) ==
  /\ UserTurn("compliance")
  /\ v # complianceVendorFilter
  /\ complianceVendorFilter' = v
  /\ UNCHANGED <<complianceFilter, agingFilters, slaFilters, pageVars>>
  /\ UNCHANGED untouched
  /\ last' = Event("setComplianceVendorFilter")
  /\ Rerender

SetComplianceFilter(s) ==
  /\ UserTurn("compliance")
  /\ s # complianceFilter
  /\ complianceFilter' = s
  /\ UNCHANGED <<complianceVendorFilter, agingFilters, slaFilters, pageVars>>
  /\ UNCHANGED untouched
  /\ last' = Event("setComplianceFilter")
  /\ Rerender

ComplianceReset ==
  /\ UserTurn("compliance")
  /\ complianceVendorFilter' = <<>>
  /\ complianceFilter' = "all"
  /\ complianceCurrentPage' = 1
  /\ UNCHANGED <<agingFilters, slaFilters, agingCurrentPage, slaCurrentPage>>
  /\ UNCHANGED untouched
  /\ last' = Event("complianceReset")
  /\ Rerender

ComplianceClearAll ==
  /\ UserTurn("compliance")
  /\ complianceVendorFilter # <<>> \/ complianceFilter # "all"
  /\ complianceVendorFilter' = <<>>
  /\ complianceFilter' = "all"
  /\ UNCHANGED <<agingFilters, slaFilters, pageVars>>
  /\ UNCHANGED untouched
  /\ last' = Event("complianceClearAll")
  /\ Rerender

SetComplianceCurrentPage(p) ==
  /\ UserTurn("compliance")
  /\ Len(view.compliance.filtered) > 0
  /\ p # complianceCurrentPage
  /\ complianceCurrentPage' = p
  /\ UNCHANGED <<filterVars, agingCurrentPage, slaCurrentPage>>
  /\ UNCHANGED untouched
  /\ last' = [op |-> "setComplianceCurrentPage", page |-> p]
  /\ Rerender

SetSlaTypeFilter(t) ==
  /\ UserTurn("sla")
  /\ t # slaTypeFilter
  /\ slaTypeFilter' = t
  /\ UNCHANGED <<slaBreachSeverity, slaDelaySeverity, agingFilters,
                 complianceFilters, pageVars>>
  /\ UNCHANGED untouched
  /\ last' = Event("setSlaTypeFilter")
  /\ Rerender

SetSlaBreachSeverity(s) ==
  /\ UserTurn("sla")
  /\ s # slaBreachSeverity
  /\ slaBreachSeverity' = s
  /\ UNCHANGED <<slaTypeFilter, slaDelaySeverity, agingFilters,
                 complianceFilters, pageVars>>
  /\ UNCHANGED untouched
  /\ last' = Event("setSlaBreachSeverity")
  /\ Rerender

SetSlaDelaySeverity(s) ==
  /\ UserTurn("sla")
  /\ s # slaDelaySeverity
  /\ slaDelaySeverity' = s
  /\ UNCHANGED <<slaTypeFilter, slaBreachSeverity, agingFilters,
                 complianceFilters, pageVars>>
  /\ UNCHANGED untouched
  /\ last' = Event("setSlaDelaySeverity")
  /\ Rerender

SlaReset ==
  /\ UserTurn("sla")
  /\ slaTypeFilter' = "all"
  /\ slaBreachSeverity' = "all"
  /\ slaDelaySeverity' = "all"
  /\ slaCurrentPage' = 1
  /\ UNCHANGED <<agingFilters, complianceFilters, agingCurrentPage,
                 complianceCurrentPage>>
  /\ UNCHANGED untouched
  /\ last' = Event("slaReset")
  /\ Rerender

SlaClearAll ==
  /\ UserTurn("sla")
  /\ slaTypeFilter # "all" \/ slaBreachSeverity # "all"
       \/ slaDelaySeverity # "all"
  /\ slaTypeFilter' = "all"
  /\ slaBreachSeverity' = "all"
  /\ slaDelaySeverity' = "all"
  /\ UNCHANGED <<agingFilters, complianceFilters, pageVars>>
  /\ UNCHANGED untouched
  /\ last' = Event("slaClearAll")
  /\ Rerender

SetSlaCurrentPage(p) ==
  /\ UserTurn("sla")
  /\ Len(view.sla.filtered) > 0
  /\ p # slaCurrentPage
  /\ slaCurrentPage' = p
  /\ UNCHANGED <<filterVars, agingCurrentPage, complianceCurrentPage>>
  /\ UNCHANGED untouched
  /\ last' = [op |-> "setSlaCurrentPage", page |-> p]
  /\ Rerender

AgingEvent ==
  \/ \E v \in VendorInputs : SetAgingVendorFilter(v)
  \/ \E s \in AgingStatusOptions : SetAgingStatusFilter(s)
  \/ AgingReset
  \/ AgingClearAll
  \/ \E p \in PageRequests(view.aging.totalPages) : SetAgingCurrentPage(p)

ComplianceEvent ==
  \/ \E v \in VendorInputs : SetComplianceVendorFilter(v)
  \/ \E s \in ComplianceOptions : SetComplianceFilter(s)
  \/ ComplianceReset
  \/ ComplianceClearAll
  \/ \E p \in PageRequests(view.compliance.totalPages) :
       SetComplianceCurrentPage(p)

SlaEvent ==
  \/ \E t \in SlaTypeOptions : SetSlaTypeFilter(t)
  \/ \E s \in BreachSeverityOptions : SetSlaBreachSeverity(s)
  \/ \E s \in DelaySeverityOptions : SetSlaDelaySeverity(s)
  \/ SlaReset
  \/ SlaClearAll
  \/ \E p \in PageRequests(view.sla.totalPages) : SetSlaCurrentPage(p)

TableEvent == AgingEvent \/ ComplianceEvent \/ SlaEvent

\* the same controls with one non-neutral value per filter slot
SampleTableEvent ==
  \/ \E v \in {<<>>, <<"a">>} : SetAgingVendorFilter(v)
  \/ \E s \in {"all", "good"} : SetAgingStatusFilter(s)
  \/ AgingReset
  \/ AgingClearAll
  \/ \E p \in PageRequests(view.aging.totalPages) : SetAgingCurrentPage(p)
  \/ \E v \in {<<>>, <<"B">>} : SetComplianceVendorFilter(v)
  \/ \E s \in {"all", "medium"} : SetComplianceFilter(s)
  \/ ComplianceReset
  \/ ComplianceClearAll
  \/ \E p \in PageRequests(view.compliance.totalPages) :
       SetComplianceCurrentPage(p)
  \/ \E t \in {"all", "Payment Release"} : SetSlaTypeFilter(t)
  \/ \E s \in {"all", "low"} : SetSlaBreachSeverity(s)
  \/ \E s \in {"all", "critical"} : SetSlaDelaySeverity(s)
  \/ SlaReset
  \/ SlaClearAll
  \/ \E p \in PageRequests(view.sla.totalPages) : SetSlaCurrentPage(p)

(***************************************************************************)
(* The passive effects of the last render, flushed together in source      *)
(* order: the summary fetch (Reports.tsx:260-270), the three page resets   *)
(* (379-390) and the trends fetch (394-407).  An effect runs when one of   *)
(* its dependencies changed; the cleanup of its previous run comes first.  *)
(***************************************************************************)
Cleanup(r) ==
  IF r.kind \in {"summary", "trends"} THEN [r EXCEPT !.mounted = FALSE] ELSE r

PageAfterEffects(page, before, now) == IF before # now THEN 1 ELSE page

FlushPassiveEffects ==
  /\ ~unmounted
  /\ EffectsPending
  /\ agingCurrentPage' =
       PageAfterEffects(agingCurrentPage, effectDeps.aging, CurrentDeps.aging)
  /\ complianceCurrentPage' =
       PageAfterEffects(complianceCurrentPage, effectDeps.compliance,
                        CurrentDeps.compliance)
  /\ slaCurrentPage' =
       PageAfterEffects(slaCurrentPage, effectDeps.sla, CurrentDeps.sla)
  /\ IF effectDeps.timeRange # timeRange
     THEN /\ inflight' = {Cleanup(r) : r \in inflight}
                 \cup {Request("summary", rangeChanges, timeRange),
                       Request("trends", rangeChanges, timeRange)}
          /\ settled' = [settled EXCEPT !.summary = "pending",
                                        !.trends = "pending"]
          /\ loading' = TRUE
     ELSE UNCHANGED <<inflight, settled, loading>>
  /\ effectDeps' = CurrentDeps
  /\ UNCHANGED <<filterVars, dataVars, periodVars, printVars, rangeChanges,
                 unmounted, timeRange, focus>>
  /\ last' = Event("effects")
  /\ Rerender

(***************************************************************************)
(* The data source.  A request is fulfilled with one of the responses below *)
(* or rejected.                                                            *)
(***************************************************************************)
AgingResponses == {AgingResponse(RawAging(SpecRows))}
\* the second response of each set lacks the summary field
ComplianceResponses ==
  {ComplianceResponse(RawCompliance(SpecRows), <<92>>),
   ComplianceResponse(RawCompliance(SpecRows), <<>>)}
SlaResponses ==
  {SlaResponse(RawSla(SpecRows), <<40>>, <<4>>),
   SlaResponse(RawSla(SpecRows), <<>>, <<4>>)}

ReleasedIn(range) ==
  CASE range = "weekly" -> 700 [] range = "monthly" -> 3000 [] OTHER -> 36000
PendingIn(range) ==
  CASE range = "weekly" -> 300 [] range = "monthly" -> 1200 [] OTHER -> 15000

SummaryResponses(range) ==
  {[data |-> <<[released |-> <<ReleasedIn(range)>>,
                pending |-> <<PendingIn(range)>>]>>],
   [data |-> <<[released |-> <<>>, pending |-> <<>>]>>]}
TrendsResponses(range) ==
  {[data |-> << <<[period |-> range, released |-> ReleasedIn(range),
                   pending |-> PendingIn(range)]>> >>]}

\* a promise callback can run: no effect of the last render is pending
CallbackReady == unmounted \/ ~EffectsPending

\* the request was issued for a time range that has been changed since
Superseded(r) == r.kind \in {"summary", "trends"} /\ r.gen # rangeChanges

\* the promise of request r settles; settled keeps the outcome of the latest
\* request of each kind
Settle(r, outcome) ==
  /\ inflight' = inflight \ {r}
  /\ settled' = IF Superseded(r) THEN settled
                ELSE [settled EXCEPT ![r.kind] = outcome]
  /\ last' = IF Superseded(r)
             THEN [op |-> "lateResponse", kind |-> r.kind,
                   outcome |-> outcome]
             ELSE Event("response")
  /\ UNCHANGED <<filterVars, pageVars, printVars, effectDeps, rangeChanges,
                 unmounted, timeRange, focus>>

\* a variant of LoadingAfter in which a settled fetch leaves the indicator on
LoadingAfterKeeps(r) == loading

\* .finally(() => { if (mounted) setLoading(false) })
LoadingAfter(r) == IF r.mounted THEN FALSE ELSE loading

(***************************************************************************)
(* The aging fetch (Reports.tsx:186-210).                                  *)
(***************************************************************************)
\* a variant of AgingDataAfter without the mounted test
AgingDataAfterUnguarded(r, resp) == AgingItems(resp)

\* if (!mounted) return; ... setAgingData(items)
AgingDataAfter(r, resp) == IF r.mounted THEN AgingItems(resp) ELSE agingData

AgingFulfilled(r, resp) ==
  /\ CallbackReady
  /\ r \in inflight /\ r.kind = "aging"
  /\ agingData' = AgingDataAfter(r, resp)
  /\ loading' = LoadingAfter(r)
  /\ UNCHANGED <<complianceData, overallCompliance, slaBreachData,
                 totalSlaBreaches, avgDelayAcrossAll, periodVars>>
  /\ Settle(r, IF resp.data = <<>> THEN "fulfilledNoData" ELSE "fulfilled")
  /\ Rerender

AgingRejected(r) ==
  /\ CallbackReady
  /\ r \in inflight /\ r.kind = "aging"
  /\ loading' = LoadingAfter(r)
  /\ UNCHANGED <<dataVars, periodVars>>
  /\ Settle(r, "rejected")
  /\ Rerender

(***************************************************************************)
(* The compliance fetch (Reports.tsx:212-232).                             *)
(***************************************************************************)
ComplianceFulfilled(r, resp) ==
  /\ CallbackReady
  /\ r \in inflight /\ r.kind = "compliance"
  /\ complianceData' = IF r.mounted THEN ComplianceRows(resp)
                       ELSE complianceData
  /\ overallCompliance' = IF r.mounted THEN ComplianceRate(resp)
                          ELSE overallCompliance
  /\ loading' = LoadingAfter(r)
  /\ UNCHANGED <<agingData, slaBreachData, totalSlaBreaches,
                 avgDelayAcrossAll, periodVars>>
  /\ Settle(r, IF resp.data = <<>> THEN "fulfilledNoData"
               ELSE IF resp.data[1].overallComplianceRate # <<>>
               THEN "fulfilled" ELSE "fulfilledEmpty")
  /\ Rerender

ComplianceRejected(r) ==
  /\ CallbackReady
  /\ r \in inflight /\ r.kind = "compliance"
  /\ loading' = LoadingAfter(r)
  /\ UNCHANGED <<dataVars, periodVars>>
  /\ Settle(r, "rejected")
  /\ Rerender

(***************************************************************************)
(* The SLA breaches fetch (Reports.tsx:234-254).                           *)
(***************************************************************************)
SlaFulfilled(r, resp) ==
  /\ CallbackReady
  /\ r \in inflight /\ r.kind = "sla"
  /\ slaBreachData' = IF r.mounted THEN SlaItems(resp) ELSE slaBreachData
  /\ totalSlaBreaches' = IF r.mounted THEN SlaTotal(resp)
                         ELSE totalSlaBreaches
  /\ avgDelayAcrossAll' = IF r.mounted THEN SlaAvgDelay(resp)
                          ELSE avgDelayAcrossAll
  /\ loading' = LoadingAfter(r)
  /\ UNCHANGED <<agingData, complianceData, overallCompliance, periodVars>>
  /\ Settle(r, IF resp.data = <<>> THEN "fulfilledNoData"
               ELSE IF resp.data[1].totalBreaches # <<>>
               THEN "fulfilled" ELSE "fulfilledEmpty")
  /\ Rerender

SlaRejected(r) ==
  /\ CallbackReady
  /\ r \in inflight /\ r.kind = "sla"
  /\ loading' = LoadingAfter(r)
  /\ UNCHANGED <<dataVars, periodVars>>
  /\ Settle(r, "rejected")
  /\ Rerender

(***************************************************************************)
(* A table fetch fulfilled with a payload that is not an array (an object, *)
(* a string): the .then callback of a mounted effect throws at .map before *)
(* any setter is called, the chained promise rejects and .finally runs     *)
(* (Reports.tsx:193, 219, 241).                                            *)
(***************************************************************************)
MapThrows(r, kind) ==
  /\ CallbackReady
  /\ r \in inflight /\ r.kind = kind
  /\ loading' = LoadingAfter(r)
  /\ UNCHANGED <<dataVars, periodVars>>
  /\ Settle(r, IF r.mounted THEN "threw" ELSE "fulfilled")
  /\ Rerender

AgingMapThrows(r) == MapThrows(r, "aging")
ComplianceMapThrows(r) == MapThrows(r, "compliance")
SlaMapThrows(r) == MapThrows(r, "sla")

(***************************************************************************)
(* The summary fetch (Reports.tsx:260-270): a response is committed only   *)
(* while the effect that issued the request is still the current one; a    *)
(* rejection is swallowed by .catch(() => {}).                             *)
(***************************************************************************)
\* a variant of SummaryCommits without the mounted flag of the effect
SummaryCommitsAlways(r) == TRUE

\* if (!mounted) return
SummaryCommits(r) == r.mounted

\* the response carries both figures
SummaryAvailable(resp) ==
  /\ resp.data # <<>>
  /\ resp.data[1].released # <<>>
  /\ resp.data[1].pending # <<>>

SummaryFulfilled(r, resp) ==
  /\ CallbackReady
  /\ r \in inflight /\ r.kind = "summary"
  /\ paymentsReleased' = IF SummaryCommits(r) THEN SummaryReleased(resp)
                         ELSE paymentsReleased
  /\ pendingPayments' = IF SummaryCommits(r) THEN SummaryPending(resp)
                        ELSE pendingPayments
  /\ UNCHANGED <<dataVars, paymentChartData, loading>>
  /\ Settle(r, IF SummaryAvailable(resp) THEN "fulfilled" ELSE "fulfilledEmpty")
  /\ Rerender

SummaryRejected(r) ==
  /\ CallbackReady
  /\ r \in inflight /\ r.kind = "summary"
  /\ UNCHANGED <<dataVars, periodVars, loading>>
  /\ Settle(r, "rejected")
  /\ Rerender

(***************************************************************************)
(* The trends fetch (Reports.tsx:394-407).                                 *)
(***************************************************************************)
\* a variant of TrendsCommits without the mounted flag of the effect
TrendsCommitsAlways(r) == TRUE

\* a variant of TrendsCommits that commits only while the loading indicator
\* is on
TrendsCommitsWhileLoading(r) == r.mounted /\ loading

\* if (!mounted) return
TrendsCommits(r) == r.mounted

TrendsFulfilled(r, resp) ==
  /\ CallbackReady
  /\ r \in inflight /\ r.kind = "trends"
  /\ paymentChartData' = IF TrendsCommits(r) THEN TrendsData(resp)
                         ELSE paymentChartData
  /\ loading' = LoadingAfter(r)
  /\ UNCHANGED <<dataVars, paymentsReleased, pendingPayments>>
  /\ Settle(r, "fulfilled")
  /\ Rerender

TrendsRejected(r) ==
  /\ CallbackReady
  /\ r \in inflight /\ r.kind = "trends"
  /\ loading' = LoadingAfter(r)
  /\ UNCHANGED <<dataVars, periodVars>>
  /\ Settle(r, "rejected")
  /\ Rerender

(***************************************************************************)
(* The time-range buttons (Reports.tsx:1340, 1350, 1360) and the tear-down *)
(* of the view, which runs the cleanup of every effect.                    *)
(***************************************************************************)
SetTimeRange(range) ==
  /\ UserTurn("period")
  /\ rangeChanges < MaxRangeChanges
  /\ range # timeRange
  /\ timeRange' = range
  /\ rangeChanges' = rangeChanges + 1
  /\ UNCHANGED <<filterVars, pageVars, dataVars, periodVars, printVars,
                 inflight, settled, unmounted, loading, effectDeps>>
  /\ last' = Event("setTimeRange")
  /\ Rerender

Unmount ==
  /\ UserTurn("view")
  /\ unmounted' = TRUE
  /\ inflight' = {[r EXCEPT !.mounted = FALSE] : r \in inflight}
  /\ UNCHANGED <<filterVars, pageVars, dataVars, periodVars, printVars,
                 settled, rangeChanges, loading, timeRange, effectDeps>>
  /\ last' = Event("unmount")
  /\ Rerender

FetchEvent ==
  \/ \E r \in inflight, resp \in AgingResponses : AgingFulfilled(r, resp)
  \/ \E r \in inflight : AgingRejected(r)
  \/ \E r \in inflight, resp \in ComplianceResponses :
       ComplianceFulfilled(r, resp)
  \/ \E r \in inflight : ComplianceRejected(r)
  \/ \E r \in inflight, resp \in SlaResponses : SlaFulfilled(r, resp)
  \/ \E r \in inflight : SlaRejected(r)
  \/ \E r \in inflight :
       \E resp \in SummaryResponses(r.range) : SummaryFulfilled(r, resp)
  \/ \E r \in inflight : SummaryRejected(r)
  \/ \E r \in inflight :
       \E resp \in TrendsResponses(r.range) : TrendsFulfilled(r, resp)
  \/ \E r \in inflight : TrendsRejected(r)

(***************************************************************************)
(* The print export (Reports.tsx:102-156, 702-721, 1005-1024).  The handler *)
(* appends an iframe to the document body, registers cleanup for the       *)
(* iframe window's afterprint event (once) and starts a 250 ms timer; the   *)
(* timer's callback calls print() and starts the 1500 ms timer whose        *)
(* callback is cleanup.                                                    *)
(***************************************************************************)
\* a variant of removeChild that leaves the iframe in the document
removeChildLeaves(s, by) == s

\* document.body.removeChild(iframe): throws when iframe is not a child
removeChild(s, by) ==
  IF s.attached
  THEN [s EXCEPT !.attached = FALSE, !.removals = @ + 1, !.releasedBy = by]
  ELSE [s EXCEPT !.threw = TRUE]

\* a variant of cleanup without the parentNode test
cleanupUnguarded(s, by) == removeChild(s, by)

\* const cleanup = () => { if (iframe.parentNode) document.body.removeChild(iframe) }
cleanup(s, by) == IF s.attached THEN removeChild(s, by) ELSE s

\* a variant of FreeSlots in which every export uses one shared iframe
FreeSlotsShared == {1}

\* the slot of the next export
FreeSlots == {e \in 1..MaxExports : surfaces[e].phase = "none"}

Appended(table) ==
  [NoSurface EXCEPT !.table = table, !.attached = TRUE]

\* an export button is pressed: the run exercises the export buttons alone
\* or the controls of the button's table
ExportTurn(table) ==
  /\ Ready
  /\ focus \in {"print", table}
  /\ UNCHANGED focus

\* the text of a row's date: '' or the ISO string of the record
DateText(d) ==
  IF d.kind = "empty" THEN <<>>
  ELSE IF d.kind = "invalid" THEN <<"not-a-date">>
  ELSE <<"T">> \o NumberToString(d.t)

\* the rows and the column order the three onExportCSV handlers pass to
\* toCSV (Reports.tsx:91-98, 698-699, 1001-1002); a column name is written as
\* a text of one element
AgingColumns ==
  <<<<"vendor">>, <<"outstandingAmount">>, <<"avgDaysPending">>,
    <<"oldestInvoiceDate">>, <<"oldestInvoiceDays">>>>
ComplianceColumns ==
  <<<<"vendor">>, <<"totalInvoices">>, <<"compliantPercentage">>,
    <<"issuesFound">>>>
SlaColumns == <<<<"slaType">>, <<"breachCount">>, <<"avgDelayDays">>>>

CsvColumns(table) ==
  CASE table = "aging" -> AgingColumns
    [] table = "compliance" -> ComplianceColumns
    [] table = "sla" -> SlaColumns

CsvRow(table, r) ==
  CASE table = "aging" ->
         <<<<AgingColumns[1], Str(r.vendor)>>,
           <<AgingColumns[2], Num(r.outstandingAmount)>>,
           <<AgingColumns[3], Num(r.avgDaysPending)>>,
           <<AgingColumns[4], Str(DateText(r.oldestInvoiceDate))>>,
           <<AgingColumns[5], Num(r.oldestInvoiceDays)>>>>
    [] table = "compliance" ->
         <<<<ComplianceColumns[1], Str(r.vendor)>>,
           <<ComplianceColumns[2], Num(r.totalInvoices)>>,
           <<ComplianceColumns[3], Num(r.compliantPercentage)>>,
           <<ComplianceColumns[4], Num(r.issuesFound)>>>>
    [] table = "sla" ->
         <<<<SlaColumns[1], Str(<<r.slaType>>)>>,
           <<SlaColumns[2], Num(r.breachCount)>>,
           <<SlaColumns[3], Num(r.avgDelayDays)>>>>

\* a variant of CsvSource that takes the rows of the visible page
CsvSourceVisiblePage(p) == p.paginated

\* the rows an onExportCSV handler maps: the filtered sequence of the last
\* render (p is the table's part of the view)
CsvSource(p) == p.filtered

CsvFileName(table) ==
  CASE table = "aging" -> "payment_aging"
    [] table = "compliance" -> "compliance"
    [] table = "sla" -> "sla_breaches"

ExportCSV(table) ==
  /\ ExportTurn(table)
  /\ LET rows == [i \in 1..Len(CsvSource(view[table])) |->
                    CsvRow(table, CsvSource(view[table])[i])]
     IN  download' = [name |-> CsvFileName(table), rows |-> rows,
                      headerOrder |-> CsvColumns(table),
                      content |-> <<toCSV(rows, CsvColumns(table))>>]
  /\ UNCHANGED <<filterVars, pageVars, dataVars, periodVars, fetchVars,
                 effectDeps, view, surfaces>>
  /\ last' = Event("exportCSV")

handleAgingExportCSV == ExportCSV("aging")
complianceOnExportCSV == ExportCSV("compliance")
slaOnExportCSV == ExportCSV("sla")

RECURSIVE GroupsOfTwo(_)
\* the digits above the thousands in groups of two
GroupsOfTwo(n) ==
  IF n < 100 THEN NumberToString(n)
  ELSE GroupsOfTwo(n \div 100)
         \o <<",", Digit((n % 100) \div 10), Digit(n % 10)>>

\* n.toLocaleString('en-IN') for a natural number
toLocaleString(n) ==
  IF n < 1000 THEN NumberToString(n)
  ELSE GroupsOfTwo(n \div 1000)
         \o <<",", Digit((n % 1000) \div 100), Digit((n % 100) \div 10),
              Digit(n % 10)>>

\* the cells of a row of the printed table; "Rs" stands for the rupee sign
PrintRow(table, r) ==
  CASE table = "aging" ->
         <<r.vendor, <<"Rs">> \o toLocaleString(r.outstandingAmount),
           NumberToString(r.avgDaysPending), DateText(r.oldestInvoiceDate),
           NumberToString(r.oldestInvoiceDays)>>
    [] table = "compliance" ->
         <<r.vendor, NumberToString(r.totalInvoices),
           NumberToString(r.compliantPercentage) \o <<"%">>,
           NumberToString(r.issuesFound)>>
    [] table = "sla" ->
         <<<<r.slaType>>, NumberToString(r.breachCount),
           NumberToString(r.avgDelayDays)>>

PrintHead(table) ==
  CASE table = "aging" ->
         <<"Vendor", "Outstanding Amount", "Avg Days Pending",
           "Oldest Invoice", "Oldest Days">>
    [] table = "compliance" ->
         <<"Vendor", "Total Invoices", "Compliant %", "Issues Found">>
    [] table = "sla" -> <<"SLA Type", "Breaches", "Avg Delay (Days)">>

\* a variant of PrintSource that takes the rows of the visible page
PrintSourceVisiblePage(p) == p.paginated

\* const rows = filteredPaymentAging (filteredCompliance, filteredSLABreaches)
PrintSource(p) == p.filtered

\* the table of the html an onExportPDF handler builds
PrintDocument(table) ==
  [head |-> PrintHead(table),
   body |-> [i \in 1..Len(PrintSource(view[table])) |->
               PrintRow(table, PrintSource(view[table])[i])]]

\* the body of the three onExportPDF handlers; hasDoc is whether
\* iframe.contentWindow?.document is there
ExportPDF(table, hasDoc) ==
  /\ ExportTurn(table)
  /\ FreeSlots # {}
  /\ LET e == CHOOSE x \in FreeSlots : \A y \in FreeSlots : x <= y
     IN  surfaces' = [surfaces EXCEPT ![e] =
           IF hasDoc
           THEN [Appended(table) EXCEPT !.phase = "printTimer",
                                        !.listener = TRUE,
                                        !.doc = <<PrintDocument(table)>>]
           ELSE [removeChild(Appended(table), "handler")
                   EXCEPT !.phase = "finished"]]
  /\ UNCHANGED <<filterVars, pageVars, dataVars, periodVars, fetchVars,
                 effectDeps, view, download>>
  /\ last' = Event("exportPDF")

handleAgingExportPDF(hasDoc) == ExportPDF("aging", hasDoc)
complianceOnExportPDF(hasDoc) == ExportPDF("compliance", hasDoc)
slaOnExportPDF(hasDoc) == ExportPDF("sla", hasDoc)

\* the 250 ms timer: focus(); print(); setTimeout(cleanup, 1500)
PrintTimerFires(e) ==
  /\ surfaces[e].phase = "printTimer"
  /\ surfaces' = [surfaces EXCEPT ![e].phase = "fallbackTimer"]
  /\ UNCHANGED <<filterVars, pageVars, dataVars, periodVars, fetchVars,
                 effectDeps, view, focus, download>>
  /\ last' = Event("print")

\* the print dialog is closed: afterprint is dispatched to the iframe's window
\* and the listener, registered once, runs cleanup
AfterPrint(e) ==
  /\ surfaces[e].phase \in {"fallbackTimer", "finished"}
  /\ surfaces[e].listener
  /\ surfaces' = [surfaces EXCEPT
                    ![e] = [cleanup(surfaces[e], "afterprint")
                              EXCEPT !.listener = FALSE]]
  /\ UNCHANGED <<filterVars, pageVars, dataVars, periodVars, fetchVars,
                 effectDeps, view, focus, download>>
  /\ last' = Event("afterprint")

\* the 1500 ms timer
FallbackTimerFires(e) ==
  /\ surfaces[e].phase = "fallbackTimer"
  /\ surfaces' = [surfaces EXCEPT
                    ![e] = [cleanup(surfaces[e], "timer")
                              EXCEPT !.phase = "finished"]]
  /\ UNCHANGED <<filterVars, pageVars, dataVars, periodVars, fetchVars,
                 effectDeps, view, focus, download>>
  /\ last' = Event("fallbackTimer")

(***************************************************************************)
(* Spec: the view from its mount on.  The five fetches complete in every   *)
(* order and with every outcome; a run exercises one group of controls     *)
(* (focus): one table's controls, the time-range buttons, or leaving the   *)
(* view.                                                                   *)
(***************************************************************************)
Next ==
  \/ SampleTableEvent
  \/ FlushPassiveEffects
  \/ FetchEvent
  \/ \E range \in TimeRanges : SetTimeRange(range)
  \/ Unmount

Spec == Init /\ [][Next]_vars

(***************************************************************************)
(* TableSpec: the tables of a loaded view, one table at a time over every  *)
(* batch of the bounded input sets.  focus names the table whose controls  *)
(* are exercised; the tables share no state (their events leave each       *)
(* other's variables unchanged).                                           *)
(***************************************************************************)
TableNext == TableEvent \/ FlushPassiveEffects

TableSpec == TableInit /\ [][TableNext]_vars

(***************************************************************************)
(* PrintSpec: the export buttons of a loaded view.  A started timer fires   *)
(* (weak fairness); the afterprint event may never be dispatched.          *)
(***************************************************************************)
PrintInit ==
  /\ focus = "print"
  /\ Loaded(AgingResponse(RawAging(SpecRows)),
            ComplianceResponse(RawCompliance(SpecRows), <<92>>),
            SlaResponse(RawSla(SpecRows), <<40>>, <<4>>))

PrintNext ==
  \/ \E hasDoc \in BOOLEAN : handleAgingExportPDF(hasDoc)
  \/ \E hasDoc \in BOOLEAN : complianceOnExportPDF(hasDoc)
  \/ \E hasDoc \in BOOLEAN : slaOnExportPDF(hasDoc)
  \/ \E e \in 1..MaxExports : PrintTimerFires(e)
  \/ \E e \in 1..MaxExports : AfterPrint(e)
  \/ \E e \in 1..MaxExports : FallbackTimerFires(e)

PrintSpec ==
  /\ PrintInit
  /\ [][PrintNext]_vars
  /\ \A e \in 1..MaxExports :
       WF_vars(PrintTimerFires(e)) /\ WF_vars(FallbackTimerFires(e))

(***************************************************************************)
(* LoadSpec: the load of the three tables with every outcome of a fetch,   *)
(* a response without data and a payload that is not an array included,    *)
(* and one table's controls in use meanwhile.                              *)
(***************************************************************************)
LoadInit == Init /\ focus \in {"aging", "compliance", "sla"}

MalformedEvent ==
  \/ \E r \in inflight : AgingFulfilled(r, NoData)
  \/ \E r \in inflight : ComplianceFulfilled(r, NoData)
  \/ \E r \in inflight : SlaFulfilled(r, NoData)
  \/ \E r \in inflight : AgingMapThrows(r)
  \/ \E r \in inflight : ComplianceMapThrows(r)
  \/ \E r \in inflight : SlaMapThrows(r)

LoadNext ==
  \/ SampleTableEvent
  \/ FlushPassiveEffects
  \/ FetchEvent
  \/ MalformedEvent

LoadSpec == LoadInit /\ [][LoadNext]_vars

(***************************************************************************)
(* PageSpec: the setters of the current pages called with every page from  *)
(* 1 to MaxPage, pages beyond the last one included, on loaded tables      *)
(* whose filters change.                                                   *)
(***************************************************************************)
AnyPageEvent ==
  \/ \E p \in 1..MaxPage : SetAgingCurrentPage(p)
  \/ \E p \in 1..MaxPage : SetComplianceCurrentPage(p)
  \/ \E p \in 1..MaxPage : SetSlaCurrentPage(p)

PageNext ==
  \/ AnyPageEvent
  \/ SampleTableEvent
  \/ FlushPassiveEffects

PageSpec == TableInit /\ [][PageNext]_vars

(***************************************************************************)
(* PeriodSpec: the time-range buttons while the fetches are in flight.     *)
(* Every fetch succeeds, and does so eventually: a pending effect is       *)
(* flushed and a promise in flight settles (weak fairness); the responses  *)
(* of the data source come back in every order.                            *)
(***************************************************************************)
\* the responses of PaymentsApi.summary(range) and PaymentsApi.trends(range)
\* of a data source that succeeds
SummaryResponseOf(range) ==
  [data |-> <<[released |-> <<ReleasedIn(range)>>,
               pending |-> <<PendingIn(range)>>]>>]
TrendsOf(range) ==
  [data |-> << <<[period |-> range, released |-> ReleasedIn(range),
                  pending |-> PendingIn(range)]>> >>]

PeriodInit == Init /\ focus = "period"

AgingSucceeds ==
  \E r \in inflight, resp \in AgingResponses : AgingFulfilled(r, resp)
ComplianceSucceeds ==
  \E r \in inflight :
    ComplianceFulfilled(r, ComplianceResponse(RawCompliance(SpecRows), <<92>>))
SlaSucceeds ==
  \E r \in inflight :
    SlaFulfilled(r, SlaResponse(RawSla(SpecRows), <<40>>, <<4>>))
SummarySucceeds ==
  \E r \in inflight : SummaryFulfilled(r, SummaryResponseOf(r.range))
TrendsSucceeds ==
  \E r \in inflight : TrendsFulfilled(r, TrendsOf(r.range))

PeriodNext ==
  \/ \E range \in TimeRanges : SetTimeRange(range)
  \/ FlushPassiveEffects
  \/ AgingSucceeds
  \/ ComplianceSucceeds
  \/ SlaSucceeds
  \/ SummarySucceeds
  \/ TrendsSucceeds

PeriodSpec ==
  /\ PeriodInit
  /\ [][PeriodNext]_vars
  /\ WF_vars(FlushPassiveEffects)
  /\ WF_vars(AgingSucceeds)
  /\ WF_vars(ComplianceSucceeds)
  /\ WF_vars(SlaSucceeds)
  /\ WF_vars(SummarySucceeds)
  /\ WF_vars(TrendsSucceeds)

(***************************************************************************)
(* DateSpec: the load of the aging table from records whose oldest invoice *)
(* date is absent (null), empty, unparseable, or a date 29 to 31 days old  *)
(* or in the future.                                                       *)
(***************************************************************************)
DateInputs ==
  {[kind |-> "null", t |-> 0], [kind |-> "empty", t |-> 0],
   [kind |-> "invalid", t |-> 0],
   [kind |-> "valid", t |-> NowHours - 24 * 31],
   [kind |-> "valid", t |-> NowHours - 24 * 30 + 1],
   [kind |-> "valid", t |-> NowHours + 5]}

DatedRows ==
  [vendorName : {<<"a">>},
   outstandingAmount : {50},
   avgPendingDays : {12},
   oldestInvoiceDate : DateInputs]

\* a batch of two pages whose dates run through the four kinds
DatedBatch ==
  [i \in 1..SpecRows |->
     [RawAgingRow(i) EXCEPT !.oldestInvoiceDate =
        <<[kind |-> "null", t |-> 0], [kind |-> "empty", t |-> 0],
          [kind |-> "invalid", t |-> 0],
          [kind |-> "valid", t |-> NowHours - 24 * 40]>>[(i % 4) + 1]]]

DatedResponses ==
  {AgingResponse(b) : b \in SeqsUpTo(DatedRows, MaxShort) \cup {DatedBatch}}

\* const isOverdue = record.oldestInvoiceDays > 30 (NaN compares false)
isOverdue(record) ==
  record.oldestInvoiceDays # NaN /\ record.oldestInvoiceDays > 30

DateInit == Init /\ focus = "aging"

DateNext ==
  \/ \E r \in inflight, resp \in DatedResponses : AgingFulfilled(r, resp)
  \/ AgingEvent
  \/ FlushPassiveEffects

DateSpec == DateInit /\ [][DateNext]_vars

(***************************************************************************)
(* ExportSpec: the export buttons of a loaded table while its filters and  *)
(* its page change.  The print exports find their document; their timers   *)
(* are left out.                                                           *)
(***************************************************************************)
ExportInit ==
  /\ focus \in {"aging", "compliance", "sla"}
  /\ Loaded(AgingResponse(RawAging(MaxRows)),
            ComplianceResponse(RawCompliance(MaxRows), <<92>>),
            SlaResponse(RawSla(MaxRows), <<40>>, <<4>>))

ExportNext ==
  \/ SampleTableEvent
  \/ FlushPassiveEffects
  \/ handleAgingExportCSV
  \/ complianceOnExportCSV
  \/ slaOnExportCSV
  \/ handleAgingExportPDF(TRUE)
  \/ complianceOnExportPDF(TRUE)
  \/ slaOnExportPDF(TRUE)

ExportSpec == ExportInit /\ [][ExportNext]_vars

(***************************************************************************)
(* CsvSpec: toCSV as a function.  The row set and the column order are     *)
(* drawn from bounded sets: up to MaxCsvRows rows with the keys x and y    *)
(* (or y alone), values that are undefined, a number, and strings with a   *)
(* comma, a quote and a newline; the column order is omitted, x,y or y,x.  *)
(***************************************************************************)
CsvKeyX == <<"x">>
CsvKeyY == <<"y">>

CsvValues ==
  {Undefined, Num(12), Str(<<",">>), Str(<<"\"">>), Str(<<"\n">>),
   Str(<<",", "\"", "\n">>)}

CsvRowInputs ==
  {<<<<CsvKeyX, v>>, <<CsvKeyY, w>>>> : v \in CsvValues, w \in CsvValues}
    \cup {<<<<CsvKeyY, w>>>> : w \in CsvValues}

CsvRowSets == UNION {[1..n -> CsvRowInputs] : n \in 0..MaxCsvRows}

CsvHeaderOrders == {<<>>, <<CsvKeyX, CsvKeyY>>, <<CsvKeyY, CsvKeyX>>}

CsvInit ==
  /\ focus = "csv"
  /\ LoadedView(NoData, NoData, NoData)
  /\ \E rows \in CsvRowSets, headerOrder \in CsvHeaderOrders :
       download = [name |-> "none", rows |-> rows,
                   headerOrder |-> headerOrder, content |-> <<>>]

\* the call toCSV(rows, headerOrder)
CallToCSV ==
  /\ focus = "csv"
  /\ download.content = <<>>
  /\ download' = [download EXCEPT
                    !.content = <<toCSV(download.rows, download.headerOrder)>>]
  /\ last' = Event("toCSV")
  /\ UNCHANGED <<filterVars, pageVars, dataVars, periodVars, fetchVars,
                 surfaces, effectDeps, view, focus>>

CsvNext == CallToCSV

CsvSpec == CsvInit /\ [][CsvNext]_vars

(***************************************************************************)
(* Properties of the page reset, the fetch effects and the print export.   *)
(***************************************************************************)
\* C1: after a change to a table's filter slots, currentPage is 1 before
\* the next visible page is read: no render windows the newly filtered
\* sequence with a pre-change page other than 1.  (In a state whose filter
\* slots differ from those the page-reset effect last ran with, view is the
\* render of the changed filters.)
C1_PageResetBeforeRead ==
  /\ effectDeps.aging # CurrentDeps.aging => view.aging.startIndex = 0
  /\ effectDeps.compliance # CurrentDeps.compliance
       => view.compliance.startIndex = 0
  /\ effectDeps.sla # CurrentDeps.sla => view.sla.startIndex = 0

\* C2: the response of a summary or trends request that was issued for a
\* time range changed since (a newer request has been issued) never changes
\* the committed released/pending figures or the trend series, in whatever
\* order the two requests complete.
C2_LateResponseDiscarded ==
  [][\A r \in inflight \ inflight' :
       Superseded(r) => /\ paymentsReleased' = paymentsReleased
                        /\ pendingPayments' = pendingPayments
                        /\ paymentChartData' = paymentChartData
                        /\ view'.summaryMetrics = view.summaryMetrics]_vars

\* the newer summary request was fulfilled first and its figures are still
\* the committed ones after the superseded request was fulfilled late
C2_Witness ==
  /\ last.op = "lateResponse"
  /\ last.kind = "summary" /\ last.outcome = "fulfilled"
  /\ timeRange # "weekly"
  /\ settled.summary = "fulfilled"
  /\ paymentsReleased = ReleasedIn(timeRange)
  /\ pendingPayments = PendingIn(timeRange)

\* C3: every export that appended its iframe eventually removes it, and
\* removes it exactly once: whichever of the afterprint listener and the
\* fallback timer runs first removes it, the later one does nothing and
\* nothing throws; so it is when afterprint is never dispatched.
C3_SurfaceReleasedOnce ==
  /\ [](\A e \in 1..MaxExports :
          /\ surfaces[e].removals <= 1
          /\ ~surfaces[e].threw
          /\ surfaces[e].attached => surfaces[e].removals = 0)
  /\ \A e \in 1..MaxExports :
       surfaces[e].attached
         ~> (~surfaces[e].attached /\ surfaces[e].removals = 1)

\* one export was released by afterprint and its fallback timer then found
\* nothing to do; another was released by the fallback timer while its
\* afterprint listener never ran
C3_Witness ==
  \E e, f \in 1..MaxExports :
    /\ surfaces[e].phase = "finished" /\ surfaces[e].releasedBy = "afterprint"
    /\ surfaces[e].removals = 1 /\ ~surfaces[e].listener
    /\ surfaces[f].phase = "finished" /\ surfaces[f].releasedBy = "timer"
    /\ surfaces[f].removals = 1 /\ surfaces[f].listener

(***************************************************************************)
(* Properties of the Filter Engine and the Pagination Controller.          *)
(***************************************************************************)
\* out holds exactly the rows of data at the indices I, in their order
IsSelection(out, data, I) ==
  /\ Len(out) = Cardinality(I)
  /\ \A i \in I : out[Cardinality({j \in I : j <= i})] = data[i]

SameLetter(x, y) == x = y \/ {x, y} \in {{"a", "A"}, {"b", "B"}}

\* text occurs in field, letter case ignored
ContainsIgnoringCase(field, text) ==
  \E off \in 0..(Len(field) - Len(text)) :
    \A k \in 1..Len(text) : SameLetter(field[off + k], text[k])

\* the named ranges of the four bucket slots
AgingBucket(n) ==
  IF n > 30 THEN "overdue" ELSE IF n > 15 THEN "warning" ELSE "good"
ComplianceBucket(n) ==
  IF n >= 95 THEN "high" ELSE IF n >= 85 THEN "medium" ELSE "low"
BreachBucket(n) ==
  IF n >= 12 THEN "high" ELSE IF n >= 8 THEN "medium" ELSE "low"
DelayBucket(n) ==
  IF n > 5 THEN "critical" ELSE IF n > 3 THEN "moderate" ELSE "minor"

AgingSatisfies(row) ==
  /\ agingVendorFilter = <<>>
       \/ ContainsIgnoringCase(row.vendor, agingVendorFilter)
  /\ agingStatusFilter = "all"
       \/ AgingBucket(row.avgDaysPending) = agingStatusFilter

ComplianceSatisfies(row) ==
  /\ complianceVendorFilter = <<>>
       \/ ContainsIgnoringCase(row.vendor, complianceVendorFilter)
  /\ complianceFilter = "all"
       \/ ComplianceBucket(row.compliantPercentage) = complianceFilter

SlaSatisfies(row) ==
  /\ slaTypeFilter = "all" \/ row.slaType = slaTypeFilter
  /\ slaBreachSeverity = "all"
       \/ BreachBucket(row.breachCount) = slaBreachSeverity
  /\ slaDelaySeverity = "all"
       \/ DelayBucket(row.avgDelayDays) = slaDelaySeverity

\* C4: in every render, each table's filtered sequence is exactly the
\* sub-sequence of its full row sequence, in the original order, of the rows
\* that satisfy all active filter slots; a slot at its neutral value imposes
\* no constraint, and no row is duplicated or reordered.
C4_FilteredIsSelection ==
  /\ IsSelection(view.aging.filtered, agingData,
       {i \in 1..Len(agingData) : AgingSatisfies(agingData[i])})
  /\ IsSelection(view.compliance.filtered, complianceData,
       {i \in 1..Len(complianceData) : ComplianceSatisfies(complianceData[i])})
  /\ IsSelection(view.sla.filtered, slaBreachData,
       {i \in 1..Len(slaBreachData) : SlaSatisfies(slaBreachData[i])})

\* two active slots select a proper sub-sequence that skips a row and keeps
\* a later one
C4_Witness ==
  /\ agingVendorFilter # <<>> /\ agingStatusFilter # "all"
  /\ Len(view.aging.filtered) >= 2
  /\ \E i, j \in 1..Len(agingData) :
       i < j /\ ~AgingSatisfies(agingData[i]) /\ AgingSatisfies(agingData[j])

\* C5: when all filter slots of a table are at their neutral value, its
\* filtered sequence equals its full row sequence (same rows, same order);
\* so it is after Reset and after Clear All.
C5_NeutralIsIdentity ==
  /\ (agingVendorFilter = <<>> /\ agingStatusFilter = "all")
       => view.aging.filtered = agingData
  /\ (complianceVendorFilter = <<>> /\ complianceFilter = "all")
       => view.compliance.filtered = complianceData
  /\ (slaTypeFilter = "all" /\ slaBreachSeverity = "all"
        /\ slaDelaySeverity = "all")
       => view.sla.filtered = slaBreachData
  /\ last.op \in {"agingReset", "agingClearAll"}
       => view.aging.filtered = agingData
  /\ last.op \in {"complianceReset", "complianceClearAll"}
       => view.compliance.filtered = complianceData
  /\ last.op \in {"slaReset", "slaClearAll"}
       => view.sla.filtered = slaBreachData

\* Clear All has just removed the active filters of a table of several rows
C5_Witness ==
  /\ last.op = "agingClearAll"
  /\ Len(agingData) >= 2
  /\ view.aging.filtered = agingData

ExactlyOne(S) == Cardinality(S) = 1

\* C6: for every bucket slot and every value of its field, exactly one
\* named bucket predicate of the filter is satisfied, and it is the one
\* whose range holds the value: overdue >30, warning (15,30], good <=15;
\* high >=95, medium [85,95), low <85; high >=12, medium [8,12), low <8;
\* critical >5, moderate (3,5], minor <=3.  avgDaysPending = 30 is warning.
C6_BucketsPartition ==
  /\ \A i \in 1..Len(agingData) :
       /\ ExactlyOne({s \in AgingStatusOptions \ {"all"} :
                        AgingStatusMatches(s, agingData[i])})
       /\ AgingStatusMatches(AgingBucket(agingData[i].avgDaysPending),
                             agingData[i])
       /\ agingData[i].avgDaysPending = 30
            => /\ AgingStatusMatches("warning", agingData[i])
               /\ ~AgingStatusMatches("overdue", agingData[i])
  /\ \A i \in 1..Len(complianceData) :
       /\ ExactlyOne({s \in ComplianceOptions \ {"all"} :
                        ComplianceLevelMatches(s, complianceData[i])})
       /\ ComplianceLevelMatches(
            ComplianceBucket(complianceData[i].compliantPercentage),
            complianceData[i])
  /\ \A i \in 1..Len(slaBreachData) :
       /\ ExactlyOne({s \in BreachSeverityOptions \ {"all"} :
                        BreachSeverityMatches(s, slaBreachData[i])})
       /\ BreachSeverityMatches(BreachBucket(slaBreachData[i].breachCount),
                                slaBreachData[i])
       /\ ExactlyOne({s \in DelaySeverityOptions \ {"all"} :
                        DelaySeverityMatches(s, slaBreachData[i])})
       /\ DelaySeverityMatches(DelayBucket(slaBreachData[i].avgDelayDays),
                               slaBreachData[i])

\* the status filter is on the warning bucket and a row sits on each side of
\* both boundaries
C6_Witness ==
  /\ agingStatusFilter = "warning"
  /\ \A n \in {15, 16, 30, 31} :
       \E i \in 1..Len(agingData) : agingData[i].avgDaysPending = n
  /\ \E i \in 1..Len(view.aging.filtered) :
       view.aging.filtered[i].avgDaysPending = 30

RECURSIVE ConcatPages(_, _)
\* the visible pages 1..p of a filtered sequence, one after the other
ConcatPages(filtered, p) ==
  IF p = 0 THEN <<>>
  ELSE ConcatPages(filtered, p - 1) \o Paginate(filtered, p).paginated

PagesPartition(filtered) ==
  LET n == Len(filtered)
      total == TotalPages(n)
  IN  /\ (n = 0) = (total = 0)
      /\ total * itemsPerPage >= n
      /\ total > 0 => (total - 1) * itemsPerPage < n
      /\ \A p \in 1..total :
           /\ Len(Paginate(filtered, p).paginated) \in 1..itemsPerPage
           /\ Paginate(filtered, p).paginated
                = SubSeq(filtered, StartIndex(p) + 1, EndIndex(p, n))
           /\ StartIndex(p) = IF p = 1 THEN 0 ELSE EndIndex(p - 1, n)
      /\ total > 0 => EndIndex(total, n) = n
      /\ ConcatPages(filtered, total) = filtered

\* C7: for every filtered sequence of length n, totalPages is
\* ceil(n / pageSize) (0 when n = 0) and the visible pages 1..totalPages are
\* non-empty, consecutive in the original order and disjoint, and their
\* concatenation is the filtered sequence (their sizes sum to n).
C7_PagesPartition ==
  /\ PagesPartition(view.aging.filtered)
  /\ view.aging.totalPages = TotalPages(Len(view.aging.filtered))
  /\ PagesPartition(view.compliance.filtered)
  /\ PagesPartition(view.sla.filtered)

\* the last, partial page of 23 rows is shown
C7_Witness ==
  /\ Len(view.aging.filtered) = 23
  /\ agingCurrentPage = 3
  /\ Len(view.aging.paginated) = 3

\* the pagination info of a table right after one of its filters was set to
\* a value that matches between 1 and itemsPerPage rows
OnePageInfo(t) ==
  Len(t.filtered) \in 1..itemsPerPage
    => /\ t.totalPages = 1
       /\ t.startIndex = 0
       /\ t.endIndex = Len(t.filtered)
       /\ t.paginated = t.filtered

\* C8: whenever a filter is set on a table so that it matches k rows with
\* 1 <= k <= pageSize, then, whatever page was current before, the
\* pagination info read next is totalPages = 1, startIndex = 0,
\* endIndex = k and the visible page holds exactly the k matching rows.
C8_FilterThenOnePage ==
  /\ last.op \in {"setAgingVendorFilter", "setAgingStatusFilter"}
       => OnePageInfo(view.aging)
  /\ last.op \in {"setComplianceVendorFilter", "setComplianceFilter"}
       => OnePageInfo(view.compliance)
  /\ last.op \in {"setSlaTypeFilter", "setSlaBreachSeverity",
                   "setSlaDelaySeverity"}
       => OnePageInfo(view.sla)

RECURSIVE SumFrom(_, _)
\* outstandingAmount summed over the rows i, i + 1, ... of rows
SumFrom(rows, i) ==
  IF i > Len(rows) THEN 0
  ELSE rows[i].outstandingAmount + SumFrom(rows, i + 1)

\* C9: in every state total outstanding is the sum of outstandingAmount over
\* all rows of the unfiltered aging data (and the other metrics are the
\* stored figures), and no filter, reset or page event, nor the page reset
\* that follows one, changes any summary metric.
C9_SummaryIgnoresFilters ==
  /\ [](/\ view.summaryMetrics.totalOutstanding = SumFrom(agingData, 1)
        /\ view.summaryMetrics.avgCompliance = overallCompliance
        /\ view.summaryMetrics.totalBreaches = totalSlaBreaches
        /\ view.summaryMetrics.paymentsReleased = paymentsReleased
        /\ view.summaryMetrics.pendingPayments = pendingPayments)
  /\ [][view'.summaryMetrics = view.summaryMetrics]_vars

\* a status filter has just hidden rows of an aging table that is on a later
\* page, and the total is still that of all rows
C9_Witness ==
  /\ last.op = "setAgingStatusFilter"
  /\ agingCurrentPage > 1
  /\ Len(view.aging.filtered) \in 1..(Len(agingData) - 1)
  /\ view.summaryMetrics.totalOutstanding = SumFrom(agingData, 1)
  /\ view.summaryMetrics.totalOutstanding
       > SumFrom(view.aging.filtered, 1)

\* C10: once the summary fetch for the selected time range has settled
\* without figures (rejected, or fulfilled without released/pending), the
\* released and pending metrics are zero, also when an earlier range had
\* figures; likewise the compliance rate and the total breaches are zero
\* when their fetch settled without the summary field.
C10_UnavailableIsZero ==
  /\ (effectDeps.timeRange = timeRange
        /\ settled.summary \in {"rejected", "fulfilledEmpty"})
       => /\ paymentsReleased = 0 /\ pendingPayments = 0
          /\ view.summaryMetrics.paymentsReleased = 0
          /\ view.summaryMetrics.pendingPayments = 0
  /\ settled.compliance \in {"rejected", "fulfilledEmpty"}
       => view.summaryMetrics.avgCompliance = 0
  /\ settled.sla \in {"rejected", "fulfilledEmpty"}
       => view.summaryMetrics.totalBreaches = 0

\* the fetch of a table failed or returned no usable data
Degraded(kind) == settled[kind] \in {"rejected", "threw", "fulfilledNoData"}

EmptyTable(t) ==
  /\ t.filtered = <<>> /\ t.paginated = <<>>
  /\ t.totalPages = 0 /\ t.endIndex = 0

\* C11: when a table's fetch fails or returns malformed data (no data, or
\* a payload that is not an array), the table has no rows and zero summary
\* values, its filters and pagination still evaluate (totalPages = 0, empty
\* visible page), and a table whose fetch was fulfilled has its rows and
\* summary values, whatever the order in which the fetches settle.
C11_FailureDegradesToEmpty ==
  /\ Degraded("aging")
       => /\ agingData = <<>> /\ EmptyTable(view.aging)
          /\ view.summaryMetrics.totalOutstanding = 0
  /\ Degraded("compliance")
       => /\ complianceData = <<>> /\ EmptyTable(view.compliance)
          /\ overallCompliance = 0 /\ view.summaryMetrics.avgCompliance = 0
  /\ Degraded("sla")
       => /\ slaBreachData = <<>> /\ EmptyTable(view.sla)
          /\ totalSlaBreaches = 0 /\ avgDelayAcrossAll = 0
          /\ view.summaryMetrics.totalBreaches = 0
  /\ settled.aging = "fulfilled"
       => /\ agingData = AgingItems(AgingResponse(RawAging(SpecRows)))
          /\ view.summaryMetrics.totalOutstanding = SumFrom(agingData, 1)
  /\ settled.compliance \in {"fulfilled", "fulfilledEmpty"}
       => complianceData
            = ComplianceRows(ComplianceResponse(RawCompliance(SpecRows), <<>>))
  /\ settled.compliance = "fulfilled" => overallCompliance = 92
  /\ settled.sla \in {"fulfilled", "fulfilledEmpty"}
       => slaBreachData = SlaItems(SlaResponse(RawSla(SpecRows), <<>>, <<>>))
  /\ settled.sla = "fulfilled" => totalSlaBreaches = 40

\* the compliance payload was not an array and the aging fetch was rejected,
\* the SLA rows are loaded, and a filter has just been set on the empty
\* compliance table
C11_Witness ==
  /\ settled.compliance = "threw" /\ settled.aging = "rejected"
  /\ settled.sla = "fulfilled" /\ Len(slaBreachData) = SpecRows
  /\ last.op = "setComplianceFilter"
  /\ complianceFilter # "all"
  /\ view.compliance.totalPages = 0

\* a step of one table: one of its filter slots or its page changes, or one
\* of its fetches settles
StepOf(kind, filters, filtersAfter, page, pageAfter) ==
  \/ filters # filtersAfter
  \/ page # pageAfter
  \/ \E r \in inflight \ inflight' : r.kind = kind

\* C12: no mutable state is shared between the tables: every step of one
\* table (a filter set, a reset, a page change, the completion of its
\* fetch) leaves the rows, the filter slots, the page and the loading
\* status of the two other tables unchanged.  (The loading status a table
\* shows is the loading flag.)
C12_NoSharedState ==
  [][/\ StepOf("aging", agingFilters, agingFilters',
               agingCurrentPage, agingCurrentPage')
        => /\ UNCHANGED <<complianceData, complianceFilters,
                          complianceCurrentPage>>
           /\ UNCHANGED <<slaBreachData, slaFilters, slaCurrentPage>>
           /\ loading' = loading
     /\ StepOf("compliance", complianceFilters, complianceFilters',
               complianceCurrentPage, complianceCurrentPage')
        => /\ UNCHANGED <<agingData, agingFilters, agingCurrentPage>>
           /\ UNCHANGED <<slaBreachData, slaFilters, slaCurrentPage>>
           /\ loading' = loading
     /\ StepOf("sla", slaFilters, slaFilters',
               slaCurrentPage, slaCurrentPage')
        => /\ UNCHANGED <<agingData, agingFilters, agingCurrentPage>>
           /\ UNCHANGED <<complianceData, complianceFilters,
                          complianceCurrentPage>>
           /\ loading' = loading]_vars

\* the rows, filter slots and pages alone: the part of C12 without the
\* loading status
C12_RowsFiltersPagesOwned ==
  [][/\ StepOf("aging", agingFilters, agingFilters',
               agingCurrentPage, agingCurrentPage')
        => /\ UNCHANGED <<complianceData, complianceFilters,
                          complianceCurrentPage>>
           /\ UNCHANGED <<slaBreachData, slaFilters, slaCurrentPage>>
     /\ StepOf("compliance", complianceFilters, complianceFilters',
               complianceCurrentPage, complianceCurrentPage')
        => /\ UNCHANGED <<agingData, agingFilters, agingCurrentPage>>
           /\ UNCHANGED <<slaBreachData, slaFilters, slaCurrentPage>>
     /\ StepOf("sla", slaFilters, slaFilters',
               slaCurrentPage, slaCurrentPage')
        => /\ UNCHANGED <<agingData, agingFilters, agingCurrentPage>>
           /\ UNCHANGED <<complianceData, complianceFilters,
                          complianceCurrentPage>>]_vars

\* C13: after the view is unmounted, the response of any fetch still in
\* flight (aging, compliance, SLA breaches, summary, trends) is discarded:
\* it changes no rows, no summary value and no loading flag.
C13_DiscardedAfterUnmount ==
  [][unmounted => /\ UNCHANGED <<dataVars, periodVars, loading>>
                  /\ view' = view]_vars

\* the view was unmounted while loading and all five fetches have been
\* fulfilled since: nothing was committed
C13_Witness ==
  /\ unmounted
  /\ inflight = {}
  /\ \A k \in Kinds : settled[k] = "fulfilled"
  /\ last.op = "response"
  /\ agingData = <<>> /\ complianceData = <<>> /\ slaBreachData = <<>>
  /\ paymentsReleased = 0 /\ paymentChartData = <<>>
  /\ loading

(***************************************************************************)
(* Properties of the delimited-text export.                                *)
(***************************************************************************)
\* C14: toCSV applied to an empty row sequence returns the empty text, with
\* no header line, whether or not a column order is given.
C14_EmptyRowsGiveEmptyText ==
  (download.content # <<>> /\ download.rows = <<>>)
    => download.content[1] = <<>>

C14_Witness ==
  /\ focus = "csv"
  /\ download.rows = <<>>
  /\ download.headerOrder # <<>>
  /\ download.content = <<<<>>>>

RECURSIVE ParseFrom(_, _, _, _, _, _)
\* a reader of delimited text with the rules of the writer: records are
\* separated by newlines and fields by commas outside quotes; a field that
\* starts with a quote runs to its closing quote, a doubled quote inside it
\* being one quote character
ParseFrom(t, i, quoted, field, record, records) ==
  IF i > Len(t) THEN Append(records, Append(record, field))
  ELSE IF quoted
  THEN IF t[i] = "\""
       THEN IF i < Len(t) /\ t[i + 1] = "\""
            THEN ParseFrom(t, i + 2, TRUE, Append(field, "\""), record, records)
            ELSE ParseFrom(t, i + 1, FALSE, field, record, records)
       ELSE ParseFrom(t, i + 1, TRUE, Append(field, t[i]), record, records)
  ELSE IF t[i] = "\"" /\ field = <<>>
  THEN ParseFrom(t, i + 1, TRUE, field, record, records)
  ELSE IF t[i] = ","
  THEN ParseFrom(t, i + 1, FALSE, <<>>, Append(record, field), records)
  ELSE IF t[i] = "\n"
  THEN ParseFrom(t, i + 1, FALSE, <<>>, <<>>,
                 Append(records, Append(record, field)))
  ELSE ParseFrom(t, i + 1, FALSE, Append(field, t[i]), record, records)

parseCSV(t) == ParseFrom(t, 1, FALSE, <<>>, <<>>, <<>>)

\* the columns a caller asks for: the column order, or every key of the rows
\* when the order is omitted
ColumnsAsked(rows, headerOrder) ==
  IF headerOrder # <<>> THEN {headerOrder[j] : j \in 1..Len(headerOrder)}
  ELSE {rows[i][j][1] : i \in 1..Len(rows), j \in {1}}
         \cup {rows[i][2][1] : i \in {k \in 1..Len(rows) : Len(rows[k]) > 1}}

\* the text of a field value: the empty text for undefined
TextOf(row, h) ==
  IF \E j \in 1..Len(row) : row[j][1] = h /\ row[j][2].t = "string"
  THEN row[CHOOSE j \in 1..Len(row) : row[j][1] = h][2].s
  ELSE IF \E j \in 1..Len(row) : row[j][1] = h /\ row[j][2].t = "number"
  THEN NumberToString(row[CHOOSE j \in 1..Len(row) : row[j][1] = h][2].n)
  ELSE <<>>

\* C15: reading the output of toCSV for a non-empty row set with the quoting
\* rules of the writer gives back, row by row and column by column, the text
\* of every field value, values with a comma, a quote and a newline included.
C15_RoundTrip ==
  (download.content # <<>> /\ download.rows # <<>> /\ focus = "csv") =>
    LET rows == download.rows
        recs == parseCSV(download.content[1])
    IN  /\ Len(recs) = Len(rows) + 1
        /\ \A h \in ColumnsAsked(rows, download.headerOrder) :
             \E j \in 1..Len(recs[1]) :
               /\ recs[1][j] = h
               /\ \A i \in 1..Len(rows) :
                    /\ Len(recs[i + 1]) = Len(recs[1])
                    /\ recs[i + 1][j] = TextOf(rows[i], h)

C15_Witness ==
  /\ focus = "csv"
  /\ download.content # <<>>
  /\ Len(download.rows) = 2
  /\ download.rows[1] = <<<<CsvKeyX, Str(<<",", "\"", "\n">>)>>,
                          <<CsvKeyY, Undefined>>>>
  /\ download.rows[2] = <<<<CsvKeyX, Str(<<"\"">>)>>,
                          <<CsvKeyY, Str(<<"\n">>)>>>>
  /\ download.headerOrder = <<CsvKeyY, CsvKeyX>>

\* the keys of a row set in the order of their first occurrence
IsFirstSeenOrder(hs, rows) ==
  LET pos(h) == CHOOSE p \in 1..(3 * Len(rows) + 2) :
                  /\ \E i \in 1..Len(rows), j \in 1..2 :
                       j <= Len(rows[i]) /\ rows[i][j][1] = h /\ p = 3 * i + j
                  /\ \A i \in 1..Len(rows), j \in 1..2 :
                       (j <= Len(rows[i]) /\ rows[i][j][1] = h)
                         => p <= 3 * i + j
  IN  /\ \A a, b \in 1..Len(hs) : a < b => pos(hs[a]) < pos(hs[b])
      /\ {hs[a] : a \in 1..Len(hs)} = ColumnsAsked(rows, <<>>)

\* C16: for a non-empty row set the output of toCSV is the header record
\* followed by one record per row in row order, 1 + n records joined by
\* newlines; every record lists its fields in the caller's column order, and
\* when no order is given the columns are the keys of the rows in the order
\* of their first occurrence.
C16_HeaderThenOneRecordPerRow ==
  (download.content # <<>> /\ download.rows # <<>> /\ focus = "csv") =>
    LET rows == download.rows
        recs == parseCSV(download.content[1])
    IN  /\ Len(recs) = 1 + Len(rows)
        /\ IF download.headerOrder # <<>>
           THEN recs[1] = download.headerOrder
           ELSE IsFirstSeenOrder(recs[1], rows)
        /\ \A i \in 1..Len(rows) :
             recs[i + 1] = [j \in 1..Len(recs[1]) |-> TextOf(rows[i], recs[1][j])]

C16_Witness ==
  /\ focus = "csv"
  /\ download.content # <<>>
  /\ download.headerOrder = <<>>
  /\ Len(download.rows) = 2
  /\ Len(download.rows[1]) = 1
  /\ Len(download.rows[2]) = 2
  /\ parseCSV(download.content[1])[1] = <<CsvKeyY, CsvKeyX>>

\* the filtered sequence of a table by the filter criteria now in force
FilteredNow(table) ==
  CASE table = "aging" ->
         filteredPaymentAging(agingData, agingVendorFilter, agingStatusFilter)
    [] table = "compliance" ->
         filteredCompliance(complianceData, complianceVendorFilter,
                            complianceFilter)
    [] table = "sla" ->
         filteredSLABreaches(slaBreachData, slaTypeFilter, slaBreachSeverity,
                             slaDelaySeverity)

\* the fields of a row as texts, in the column order of the table's export
FieldTexts(table, r) ==
  CASE table = "aging" ->
         <<r.vendor, NumberToString(r.outstandingAmount),
           NumberToString(r.avgDaysPending), DateText(r.oldestInvoiceDate),
           NumberToString(r.oldestInvoiceDays)>>
    [] table = "compliance" ->
         <<r.vendor, NumberToString(r.totalInvoices),
           NumberToString(r.compliantPercentage),
           NumberToString(r.issuesFound)>>
    [] table = "sla" ->
         <<<<r.slaType>>, NumberToString(r.breachCount),
           NumberToString(r.avgDelayDays)>>

TableOfFile(name) ==
  CASE name = "payment_aging" -> "aging"
    [] name = "compliance" -> "compliance"
    [] name = "sla_breaches" -> "sla"

\* the number of lines of a text whose fields hold no newline
Lines(text) ==
  IF text = <<>> THEN 0 ELSE 1 + Len(SelectSeq(text, LAMBDA c : c = "\n"))

\* C17: a delimited-text export serializes every row of the table's filtered
\* sequence, in order, by the filter criteria in force when it is requested,
\* whatever the current page: the rows handed to toCSV are the fields of the
\* filtered rows under the table's column names, the file is their
\* serialization, and it is not cut to the visible page.
C17_CsvExportsWholeFilteredSequence ==
  last.op = "exportCSV" =>
    LET table == TableOfFile(download.name)
        filtered == FilteredNow(table)
    IN  /\ [i \in 1..Len(download.rows) |->
              [j \in 1..Len(download.rows[i]) |->
                 StringOf(download.rows[i][j][2])]]
             = [i \in 1..Len(filtered) |-> FieldTexts(table, filtered[i])]
        /\ \A i \in 1..Len(download.rows) :
             [j \in 1..Len(download.rows[i]) |-> download.rows[i][j][1]]
               = download.headerOrder
        /\ download.content[1] = toCSV(download.rows, download.headerOrder)
        /\ Lines(download.content[1])
             = IF filtered = <<>> THEN 0 ELSE 1 + Len(filtered)

C17_Witness ==
  /\ last.op = "exportCSV"
  /\ download.name = "compliance"
  /\ complianceVendorFilter # <<>>
  /\ complianceCurrentPage = 2
  /\ Len(view.compliance.paginated) < Len(view.compliance.filtered)
  /\ Len(download.rows) = Len(view.compliance.filtered)
  /\ Len(view.compliance.filtered) < Len(complianceData)

\* a printed cell without the marks the print adds to a number: the currency
\* sign, the digit grouping and the percent sign
Unformatted(cell) == SelectSeq(cell, LAMBDA c : c \notin {"Rs", ",", "%"})

\* the surface e is created by this step with a document written into it
Printed(e) ==
  /\ surfaces[e].phase = "none"
  /\ surfaces'[e].phase # "none"
  /\ surfaces'[e].doc # <<>>

\* the rows a delimited-text export of the table hands to toCSV in this state
CsvRowsNow(table) ==
  [i \in 1..Len(CsvSource(view[table])) |->
     CsvRow(table, CsvSource(view[table])[i])]

\* C18: the document of a print export has the header row and one data row
\* for every row of the table's filtered sequence: the rows, in the order, of
\* the data records a delimited-text export taken in the same state holds
\* (no data row when the filtered sequence is empty).
C18_PrintHasTheRowsOfTheCsv ==
  [][\A e \in 1..MaxExports :
       Printed(e) =>
         LET table == surfaces'[e].table
             doc == surfaces'[e].doc[1]
         IN  /\ Len(doc.head) = Len(CsvColumns(table))
             /\ [i \in 1..Len(doc.body) |->
                   [j \in 1..Len(doc.body[i]) |->
                      Unformatted(doc.body[i][j])]]
                  = [i \in 1..Len(CsvRowsNow(table)) |->
                       [j \in 1..Len(CsvColumns(table)) |->
                          StringOf(Get(CsvRowsNow(table)[i],
                                       CsvColumns(table)[j]))]]]_vars

C18_Witness ==
  /\ last.op = "exportPDF"
  /\ complianceVendorFilter # <<>>
  /\ complianceCurrentPage = 2
  /\ \E e \in 1..MaxExports :
       /\ surfaces[e].table = "compliance"
       /\ surfaces[e].doc # <<>>
       /\ Len(surfaces[e].doc[1].body) = Len(view.compliance.filtered)
       /\ Len(view.compliance.paginated) < Len(view.compliance.filtered)
       /\ Len(view.compliance.filtered) < Len(complianceData)

\* an empty filtered sequence prints the header and no data row
C18_EmptyWitness ==
  /\ last.op = "exportPDF"
  /\ \E e \in 1..MaxExports :
       /\ surfaces[e].table = "sla"
       /\ surfaces[e].doc # <<>>
       /\ surfaces[e].doc[1].body = <<>>
       /\ Len(surfaces[e].doc[1].head) = 3
       /\ view.sla.filtered = <<>>

(***************************************************************************)
(* Properties of the derived age of the oldest invoice.                    *)
(***************************************************************************)
\* the row comes from a record whose date was absent, empty or unparseable
\* (normalisation stores '' for an absent date)
DateMissing(row) == row.oldestInvoiceDate.kind \in {"empty", "invalid"}

\* C19: a record whose oldest invoice date is absent (null, undefined or
\* empty) or cannot be parsed gives a row with oldestInvoiceDays = 0, a
\* number, and the row is not shown as overdue.
C19_MissingDateGivesZeroDays ==
  \A i \in 1..Len(agingData) :
    DateMissing(agingData[i]) =>
      /\ agingData[i].oldestInvoiceDays = 0
      /\ ~isOverdue(agingData[i])

\* what holds of C19: an absent or empty date gives 0, and no row with an
\* absent, empty or unparseable date is shown as overdue
C19_AbsentDateGivesZeroDays ==
  \A i \in 1..Len(agingData) :
    /\ agingData[i].oldestInvoiceDate.kind = "empty"
         => agingData[i].oldestInvoiceDays = 0
    /\ DateMissing(agingData[i]) => ~isOverdue(agingData[i])

(***************************************************************************)
(* Properties of the period data.                                          *)
(***************************************************************************)
\* the effects of a render with a new time range run in this step
RangeEffectsRun ==
  /\ effectDeps.timeRange # timeRange
  /\ effectDeps'.timeRange = timeRange'

\* this step issues a summary and a trends request for the current range
NewPeriodRequests ==
  \A kind \in {"summary", "trends"} :
    \E r \in inflight' \ inflight :
      r.kind = kind /\ r.range = timeRange' /\ r.mounted

\* the released and pending figures and the trend series are the responses
\* of the data source for the selected range
ShowsSelectedRange ==
  /\ paymentsReleased = ReleasedIn(timeRange)
  /\ pendingPayments = PendingIn(timeRange)
  /\ paymentChartData = TrendsData(TrendsOf(timeRange))
  /\ view.summaryMetrics.paymentsReleased = ReleasedIn(timeRange)
  /\ view.summaryMetrics.pendingPayments = PendingIn(timeRange)

\* C20: every change of the time range issues a new summary fetch and a new
\* trends fetch for the new range; when every fetch eventually succeeds and
\* the range stops changing, the released and pending figures and the trend
\* series eventually are the responses for the last selected range, and
\* remain so.
C20_PeriodDataFollowsRange ==
  /\ [][RangeEffectsRun => NewPeriodRequests]_vars
  /\ (timeRange # effectDeps.timeRange) ~> (timeRange = effectDeps.timeRange)
  /\ <>[]ShowsSelectedRange

C20_Witness ==
  /\ rangeChanges > 0
  /\ timeRange # "weekly"
  /\ last.op = "lateResponse"
  /\ \A r \in inflight : r.kind \notin {"summary", "trends"}
  /\ ShowsSelectedRange

(***************************************************************************)
(* Properties of the page window.                                          *)
(***************************************************************************)
\* the pagination info t of a table shown at page p: the window [start, end)
\* of the filtered sequence, empty when p is beyond the last page
WindowOf(t, p) ==
  LET n == Len(t.filtered)
      start == (p - 1) * itemsPerPage
      end == IF start + itemsPerPage <= n THEN start + itemsPerPage ELSE n
  IN  /\ t.startIndex = start
      /\ t.endIndex = end
      /\ Len(t.paginated) = (IF end > start THEN end - start ELSE 0)
      /\ \A k \in 1..Len(t.paginated) : t.paginated[k] = t.filtered[start + k]
      /\ (p > t.totalPages) => t.paginated = <<>>

\* C21: the visible page is the rows at the indices [start, end) with
\* start = (p - 1) * pageSize and end = min(start + pageSize, n); a page
\* beyond the last one is not clamped and does not fail: the visible slice
\* is empty and currentPage stays as requested.
C21_WindowNotClamped ==
  /\ WindowOf(view.aging, agingCurrentPage)
  /\ WindowOf(view.compliance, complianceCurrentPage)
  /\ WindowOf(view.sla, slaCurrentPage)
  /\ last.op = "setAgingCurrentPage" => agingCurrentPage = last.page
  /\ last.op = "setComplianceCurrentPage"
       => complianceCurrentPage = last.page
  /\ last.op = "setSlaCurrentPage" => slaCurrentPage = last.page

C21_Witness ==
  /\ last.op = "setAgingCurrentPage"
  /\ last.page = MaxPage
  /\ view.aging.totalPages = 2
  /\ agingCurrentPage = MaxPage
  /\ view.aging.paginated = <<>>
  /\ view.aging.startIndex > view.aging.endIndex

\* the whole days from a parseable date to now, 0 for a date in the future
DaysSince(d) ==
  IF d.t >= NowHours THEN 0
  ELSE CHOOSE k \in 0..NowHours :
         24 * k <= NowHours - d.t /\ NowHours - d.t < 24 * (k + 1)

\* C22: for a parseable date oldestInvoiceDays is
\* max(0, floor((now - date) / 1 day)); hence it is a non-negative integer in
\* every row of every reachable state and 0 for a date in the future.
C22_DaysNonNegativeInteger ==
  \A i \in 1..Len(agingData) :
    /\ agingData[i].oldestInvoiceDays \in Nat
    /\ agingData[i].oldestInvoiceDate.kind = "valid"
         => agingData[i].oldestInvoiceDays
              = DaysSince(agingData[i].oldestInvoiceDate)

\* what holds of C22: the formula for every parseable date
C22_ParseableDateFormula ==
  \A i \in 1..Len(agingData) :
    agingData[i].oldestInvoiceDate.kind = "valid"
      => /\ agingData[i].oldestInvoiceDays
              = DaysSince(agingData[i].oldestInvoiceDate)
         /\ agingData[i].oldestInvoiceDays \in Nat

\* what holds of C22: the rows change only when a response is committed
C22_ComputedOnce ==
  [][agingData' # agingData => last'.op = "response"]_vars

(***************************************************************************)
(* RecordSpec: the load of the aging and compliance tables from records    *)
(* whose vendor name or oldest invoice date may be absent, and the vendor  *)
(* search box in use.  The normalisers copy the vendor name as it is       *)
(* (Reports.tsx:194, 220), so the row of a record without one holds        *)
(* undefined; item.vendor.toLowerCase() on such a row raises a TypeError   *)
(* inside the render (Reports.tsx:291, 313), and React removes the tree   *)
(* of a render that threw, running the cleanup of every effect.            *)
(***************************************************************************)
\* the value undefined of a text field; no text of the model equals it
Absent == <<"undefined">>

\* the vendor filter callback raises on a row of data
vendorThrows(data, vendorFilter) ==
  /\ vendorFilter # <<>>
  /\ \E i \in 1..Len(data) : data[i].vendor = Absent

\* the render of the current state raises
RenderThrows ==
  \/ vendorThrows(agingData, agingVendorFilter)
  \/ vendorThrows(complianceData, complianceVendorFilter)

RecordAgingRows ==
  [vendorName : {<<"a">>, Absent},
   outstandingAmount : {50},
   avgPendingDays : {12},
   oldestInvoiceDate : {[kind |-> "null", t |-> 0],
                        [kind |-> "invalid", t |-> 0],
                        [kind |-> "valid", t |-> NowHours - 24 * 40]}]

RecordComplianceRows ==
  [vendor : {<<"a">>, Absent},
   totalInvoices : {20},
   compliantPercentage : {90},
   issuesFound : {1}]

RecordAgingBatches == SeqsUpTo(RecordAgingRows, MaxShort)
RecordComplianceBatches == SeqsUpTo(RecordComplianceRows, MaxShort)

\* the tree is removed: the state of the component is gone with it
TreeRemoved(requests) ==
  /\ unmounted' = TRUE
  /\ inflight' = {[r EXCEPT !.mounted = FALSE] : r \in requests}
  /\ last' = Event("renderThrew")
  /\ UNCHANGED <<filterVars, pageVars, dataVars, periodVars, printVars,
                 settled, rangeChanges, loading, timeRange, effectDeps, view,
                 focus>>

\* a text typed into a vendor search box whose table holds a row without a
\* vendor name
VendorFilterThrows ==
  \E v \in VendorInputs :
    \/ /\ UserTurn("aging")
       /\ v # agingVendorFilter
       /\ vendorThrows(agingData, v)
       /\ TreeRemoved(inflight)
    \/ /\ UserTurn("compliance")
       /\ v # complianceVendorFilter
       /\ vendorThrows(complianceData, v)
       /\ TreeRemoved(inflight)

\* a response with a record without a vendor name arrives while the vendor
\* search box of its table holds a text
ResponseThrows ==
  \E r \in inflight :
    /\ CallbackReady
    /\ r.mounted
    /\ \/ /\ r.kind = "aging"
          /\ \E b \in RecordAgingBatches :
               vendorThrows(AgingItems(AgingResponse(b)), agingVendorFilter)
       \/ /\ r.kind = "compliance"
          /\ \E b \in RecordComplianceBatches :
               vendorThrows(ComplianceRows(ComplianceResponse(b, <<90>>)),
                            complianceVendorFilter)
    /\ TreeRemoved(inflight \ {r})

RecordAgingFulfilled ==
  \E r \in inflight, b \in RecordAgingBatches :
    AgingFulfilled(r, AgingResponse(b)) /\ ~RenderThrows'

RecordComplianceFulfilled ==
  \E r \in inflight, b \in RecordComplianceBatches :
    ComplianceFulfilled(r, ComplianceResponse(b, <<90>>)) /\ ~RenderThrows'

RecordVendorTyped ==
  \E v \in VendorInputs :
    \/ SetAgingVendorFilter(v) /\ ~RenderThrows'
    \/ SetComplianceVendorFilter(v) /\ ~RenderThrows'

RecordInit == Init /\ focus \in {"aging", "compliance"}

RecordNext ==
  \/ RecordAgingFulfilled
  \/ RecordComplianceFulfilled
  \/ RecordVendorTyped
  \/ FlushPassiveEffects
  \/ VendorFilterThrows
  \/ ResponseThrows

RecordSpec == RecordInit /\ [][RecordNext]_vars

(***************************************************************************)
(* Properties of the normalisers and of the filters on their rows.         *)
(***************************************************************************)
\* C23: the evaluation of a table's filter is total: on the rows the
\* normaliser gives for any raw records, a record without a vendor name
\* included, and for any filter values, it raises no error and returns a
\* sub-sequence of the rows.
C23_FilterEvaluationTotal ==
  /\ last.op # "renderThrew"
  /\ ~RenderThrows
  /\ \A i \in 1..Len(view.aging.filtered) :
       \E j \in 1..Len(agingData) : view.aging.filtered[i] = agingData[j]
  /\ \A i \in 1..Len(view.compliance.filtered) :
       \E j \in 1..Len(complianceData) :
         view.compliance.filtered[i] = complianceData[j]

\* C24: the normaliser gives exactly one row per raw record, in the order of
\* the batch, whatever field of a record is absent or invalid; an absent
\* text becomes the empty string and an absent or invalid date gives 0
\* days, so that a bad record neither alters nor hides the other rows.
C24_OneRowPerRecordWithDefaults ==
  /\ \A b \in RecordAgingBatches :
       /\ Len(AgingItems(AgingResponse(b))) = Len(b)
       /\ \A i \in 1..Len(b) :
            AgingItems(AgingResponse(b))[i] = NormalizeAging(b[i])
  /\ \A b \in RecordComplianceBatches :
       /\ Len(ComplianceRows(ComplianceResponse(b, <<90>>))) = Len(b)
       /\ \A i \in 1..Len(b) :
            ComplianceRows(ComplianceResponse(b, <<90>>))[i]
              = NormalizeCompliance(b[i])
  /\ \A i \in 1..Len(agingData) :
       /\ agingData[i].vendor # Absent
       /\ DateMissing(agingData[i]) => agingData[i].oldestInvoiceDays = 0
  /\ \A i \in 1..Len(complianceData) : complianceData[i].vendor # Absent
  /\ last.op # "renderThrew"

\* what holds of C24: one row per raw record, in the order of the batch,
\* and the row of a well-formed record is not altered by a bad record next
\* to it
C24_OneRowPerRecord ==
  /\ \A b \in RecordAgingBatches :
       /\ Len(AgingItems(AgingResponse(b))) = Len(b)
       /\ \A i \in 1..Len(b) :
            AgingItems(AgingResponse(b))[i] = NormalizeAging(b[i])
  /\ \A i \in 1..Len(agingData) :
       \E row \in RecordAgingRows : agingData[i] = NormalizeAging(row)

(***************************************************************************)
(* Properties of overlapping exports and of what an export leaves alone.   *)
(***************************************************************************)
\* C25: a print export requested while an earlier one is in flight appends
\* an iframe of its own and leaves the earlier one as it is; a step of one
\* export (its timers, its afterprint listener) never changes the iframe of
\* another; and every appended iframe is eventually removed, in every
\* interleaving of the timers and afterprint events of the exports.
C25_OwnSurfacePerExport ==
  /\ [][/\ (last'.op = "exportPDF") =>
             \A e \in 1..MaxExports :
               surfaces[e].phase # "none" => surfaces'[e] = surfaces[e]
        /\ \A e, f \in 1..MaxExports :
             (e # f /\ surfaces'[f] # surfaces[f]) => surfaces'[e] = surfaces[e]
       ]_vars
  /\ \A e \in 1..MaxExports :
       surfaces[e].attached ~> ~surfaces[e].attached

\* the second export was requested while the first was in flight, and its
\* fallback timer has removed its iframe while that of the first export is
\* still attached and waits for its own fallback timer
C25_Witness ==
  /\ surfaces[1].attached /\ surfaces[1].phase = "fallbackTimer"
  /\ surfaces[1].removals = 0
  /\ surfaces[2].phase = "finished" /\ surfaces[2].releasedBy = "timer"
  /\ surfaces[2].removals = 1 /\ ~surfaces[2].attached

(***************************************************************************)
(* AbortSpec: the export buttons of the aging and compliance tables, with  *)
(* and without a document in the new iframe (Reports.tsx:150-151,          *)
(* 716-717), while the status filter and the page of the aging table       *)
(* change.                                                                 *)
(***************************************************************************)
AbortInit ==
  /\ focus \in {"aging", "compliance"}
  /\ Loaded(AgingResponse(RawAging(SpecRows)),
            ComplianceResponse(RawCompliance(SpecRows), <<92>>),
            SlaResponse(RawSla(SpecRows), <<40>>, <<4>>))

AbortNext ==
  \/ \E s \in {"all", "good"} : SetAgingStatusFilter(s)
  \/ \E p \in PageRequests(view.aging.totalPages) : SetAgingCurrentPage(p)
  \/ FlushPassiveEffects
  \/ handleAgingExportCSV
  \/ complianceOnExportCSV
  \/ \E hasDoc \in BOOLEAN : handleAgingExportPDF(hasDoc)
  \/ \E hasDoc \in BOOLEAN : complianceOnExportPDF(hasDoc)
  \/ \E e \in 1..MaxExports : PrintTimerFires(e)
  \/ \E e \in 1..MaxExports : AfterPrint(e)
  \/ \E e \in 1..MaxExports : FallbackTimerFires(e)

AbortSpec == AbortInit /\ [][AbortNext]_vars

\* the steps of an export: a button's handler, a timer, the afterprint event
ExportOps == {"exportCSV", "exportPDF", "print", "afterprint", "fallbackTimer"}

\* the export of slot e has just been started and found no document
AbortedNow(e) ==
  /\ surfaces[e].phase = "none"
  /\ surfaces'[e].phase # "none"
  /\ surfaces'[e].doc = <<>>

\* C26: a print export that finds no document in its iframe removes the
\* iframe at once and starts nothing: no print, no timer, no listener; the
\* rows, the filter slots and the current page of every table are as
\* before.  No step of any export, delimited or print, successful or not,
\* changes a filter slot, a current page or the rows.
C26_AbortIsSilent ==
  [][/\ \A e \in 1..MaxExports :
          AbortedNow(e) =>
            /\ ~surfaces'[e].attached
            /\ surfaces'[e].removals = 1
            /\ surfaces'[e].releasedBy = "handler"
            /\ surfaces'[e].phase = "finished"
            /\ ~surfaces'[e].listener
            /\ ~surfaces'[e].threw
            /\ download' = download
     /\ \A e \in 1..MaxExports :
          (surfaces[e].releasedBy = "handler") => surfaces'[e] = surfaces[e]
     /\ (last'.op \in ExportOps) =>
          /\ UNCHANGED <<filterVars, pageVars, dataVars, periodVars>>
          /\ UNCHANGED <<view, effectDeps, loading>>
    ]_vars

\* an export of the aging table, filtered and on its second page, has been
\* aborted while an earlier export waits for its print timer
C26_Witness ==
  /\ last.op = "exportPDF"
  /\ surfaces[1].phase = "printTimer" /\ surfaces[1].attached
  /\ surfaces[2].releasedBy = "handler" /\ surfaces[2].table = "aging"
  /\ view.aging.totalPages = 2 /\ agingCurrentPage = 2
  /\ complianceFilter = "all"

(***************************************************************************)
(* Properties of page navigation.                                          *)
(***************************************************************************)
\* the rows, the filtered sequences and what the page-reset effects depend
\* on are as before the step
TablesAsBefore ==
  /\ UNCHANGED <<filterVars, dataVars, periodVars, effectDeps>>
  /\ view'.aging.filtered = view.aging.filtered
  /\ view'.compliance.filtered = view.compliance.filtered
  /\ view'.sla.filtered = view.sla.filtered
  /\ ~EffectsPending'

\* C27: a page-navigation request on a table sets that table's current page
\* to the requested page and changes nothing else: every filter slot, the
\* rows, the filtered sequences and the current pages of the other tables
\* stay as they are, and no page reset follows from it.  A current page
\* changes only by a navigation request, by Reset, or by the reset that
\* follows a change of a filter slot of its table.
C27_PageNavigationFrame ==
  [][/\ (last'.op = "setAgingCurrentPage") =>
          /\ agingCurrentPage' = last'.page
          /\ UNCHANGED <<complianceCurrentPage, slaCurrentPage>>
          /\ TablesAsBefore
     /\ (last'.op = "setComplianceCurrentPage") =>
          /\ complianceCurrentPage' = last'.page
          /\ UNCHANGED <<agingCurrentPage, slaCurrentPage>>
          /\ TablesAsBefore
     /\ (last'.op = "setSlaCurrentPage") =>
          /\ slaCurrentPage' = last'.page
          /\ UNCHANGED <<agingCurrentPage, complianceCurrentPage>>
          /\ TablesAsBefore
     /\ (agingCurrentPage' # agingCurrentPage) =>
          \/ last'.op \in {"setAgingCurrentPage", "agingReset"}
          \/ /\ last'.op = "effects"
             /\ effectDeps.aging # <<agingVendorFilter, agingStatusFilter>>
             /\ agingCurrentPage' = 1
     /\ (complianceCurrentPage' # complianceCurrentPage) =>
          \/ last'.op \in {"setComplianceCurrentPage", "complianceReset"}
          \/ /\ last'.op = "effects"
             /\ effectDeps.compliance
                  # <<complianceVendorFilter, complianceFilter>>
             /\ complianceCurrentPage' = 1
     /\ (slaCurrentPage' # slaCurrentPage) =>
          \/ last'.op \in {"setSlaCurrentPage", "slaReset"}
          \/ /\ last'.op = "effects"
             /\ effectDeps.sla
                  # <<slaTypeFilter, slaBreachSeverity, slaDelaySeverity>>
             /\ slaCurrentPage' = 1
    ]_vars

\* the second page of a filtered aging table of three pages has just been
\* asked for: the filter is as it was and no effect is pending
C27_Witness ==
  /\ last.op = "setAgingCurrentPage" /\ last.page = 2
  /\ agingCurrentPage = 2
  /\ agingVendorFilter # <<>>
  /\ view.aging.totalPages = 3
  /\ Len(view.aging.paginated) = itemsPerPage
  /\ ~EffectsPending

(***************************************************************************)
(* SettleSpec: the view stays mounted, the time range is changed up to     *)
(* MaxRangeChanges times, and every fetch that was issued settles, by a    *)
(* response or by a rejection, in any order: while a fetch is in flight    *)
(* one of the fetches in flight settles (weak fairness), and the effects   *)
(* of a render are flushed (weak fairness).  The summary fetch, which does *)
(* not touch the loading indicator, is always fulfilled.                   *)
(***************************************************************************)
AgingSettles ==
  \/ AgingSucceeds
  \/ \E r \in inflight : AgingRejected(r)
ComplianceSettles ==
  \/ ComplianceSucceeds
  \/ \E r \in inflight : ComplianceRejected(r)
SlaSettles ==
  \/ SlaSucceeds
  \/ \E r \in inflight : SlaRejected(r)
TrendsSettles ==
  \/ TrendsSucceeds
  \/ \E r \in inflight : TrendsRejected(r)

\* some fetch in flight settles
FetchSettles ==
  \/ AgingSettles
  \/ ComplianceSettles
  \/ SlaSettles
  \/ SummarySucceeds
  \/ TrendsSettles

SettleNext ==
  \/ \E range \in {"weekly", "monthly"} : SetTimeRange(range)
  \/ FlushPassiveEffects
  \/ FetchSettles

SettleSpec ==
  /\ PeriodInit
  /\ [][SettleNext]_vars
  /\ WF_vars(FlushPassiveEffects)
  /\ WF_vars(FetchSettles)

(***************************************************************************)
(* Properties of the loading indicator and of the order of the responses.  *)
(***************************************************************************)
\* the fetches that turn the loading indicator on
LoadingKinds == {"aging", "compliance", "sla", "trends"}

\* no fetch that turns the indicator on is in flight
LoadingFetchesSettled == \A r \in inflight : r.kind \notin LoadingKinds

\* C28: when every issued fetch settles and the view stays mounted, the
\* loading indicator is stopped in the end: whenever none of the aging,
\* compliance, SLA and trends fetches is in flight loading is false, and
\* loading is false from some point on; in every order of completion, also
\* when a fetch is rejected and when a trends fetch was superseded by a
\* change of the time range.
C28_LoadingEventuallyStops ==
  /\ [](LoadingFetchesSettled => ~loading)
  /\ <>[](inflight = {} /\ ~loading)

\* a trends fetch superseded by a change of the time range settles last,
\* after a rejected aging fetch, and loading is false
C28_Witness ==
  /\ inflight = {}
  /\ ~loading
  /\ rangeChanges = 1
  /\ last.op = "lateResponse" /\ last.kind = "trends"
  /\ settled.aging = "rejected"

\* the table of a fetch shows the text 'No records match the current filters'
\* (Reports.tsx:563-570, 832, 1159): loading is off and its page is empty
ShowsNoRecords(t) == ~loading /\ t.paginated = <<>>

\* a fetch of the mounted view of the given kind has not settled
InFlight(kind) == \E r \in inflight : r.kind = kind /\ r.mounted

\* C29: in every reachable state of the mounted view loading is true while
\* one of the aging, compliance, SLA and trends fetches has not settled, so
\* no table shows 'No records match the current filters' over its empty
\* initial rows while its own fetch is in flight.
C29_LoadingWhileInFlight ==
  ~unmounted =>
    /\ (\E kind \in LoadingKinds : InFlight(kind)) => loading
    /\ InFlight("aging") => ~ShowsNoRecords(view.aging)
    /\ InFlight("compliance") => ~ShowsNoRecords(view.compliance)
    /\ InFlight("sla") => ~ShowsNoRecords(view.sla)

\* what holds of C29: loading is true until the first of the fetches of the
\* mount has settled
C29_LoadingUntilFirstSettles ==
  (~unmounted /\ rangeChanges = 0
     /\ \A kind \in LoadingKinds : settled[kind] = "pending") => loading

\* the state the settled fetches of the mount leave behind, as a function
\* of which of them were fulfilled and which were rejected
RowsOf(kind, rows) == IF settled[kind] = "fulfilled" THEN rows ELSE <<>>
NumberOf(kind, n) == IF settled[kind] = "fulfilled" THEN n ELSE 0

\* C30: once the fetches of the mount have all settled, the state does not
\* depend on the order in which they settled: for fixed responses (and
\* fixed rejections) the rows of the three tables, the figures of the
\* summary, the trend series, the summary metrics, the filter slots and the
\* current pages are the same after every interleaving of the completions.
C30_OrderIndependent ==
  (inflight = {} /\ rangeChanges = 0) =>
    /\ agingData
         = RowsOf("aging", AgingItems(AgingResponse(RawAging(SpecRows))))
    /\ complianceData
         = RowsOf("compliance", [i \in 1..SpecRows |->
                                   NormalizeCompliance(RawComplianceRow(i))])
    /\ overallCompliance = NumberOf("compliance", 92)
    /\ slaBreachData
         = RowsOf("sla", [i \in 1..SpecRows |-> NormalizeSla(RawSlaRow(i))])
    /\ totalSlaBreaches = NumberOf("sla", 40)
    /\ avgDelayAcrossAll = NumberOf("sla", 4)
    /\ paymentsReleased = NumberOf("summary", ReleasedIn("weekly"))
    /\ pendingPayments = NumberOf("summary", PendingIn("weekly"))
    /\ paymentChartData = RowsOf("trends", TrendsData(TrendsOf("weekly")))
    /\ view = Render(agingData, <<>>, "all", 1, complianceData, <<>>, "all", 1,
                     slaBreachData, "all", "all", "all", 1,
                     overallCompliance, totalSlaBreaches,
                     paymentsReleased, pendingPayments)
    /\ Defaults

\* the five fetches of the mount have settled, the aging fetch by a
\* rejection and the others by their responses, the trends response last
C30_Witness ==
  /\ inflight = {} /\ rangeChanges = 0
  /\ last.op = "response"
  /\ settled.aging = "rejected" /\ agingData = <<>>
  /\ settled.compliance = "fulfilled" /\ Len(complianceData) = SpecRows
  /\ settled.trends = "fulfilled" /\ paymentChartData # <<>>
  /\ settled.summary = "fulfilled" /\ paymentsReleased = ReleasedIn("weekly")
  /\ ~loading

====
